---- MODULE Spec2Model ----
(***************************************************************************)
(* Verification model of the PDF text-overlay editor.                      *)
(*                                                                         *)
(*   - save route  (src/unnamed/part_001): rotation helpers, deriveBounds, *)
(*     computeMaskBoundsFromOriginal, applyOverlaysToPage, POST page loop. *)
(*   - page hook   (src/src/app/pdf/hooks/useFabricPageRender.ts, second   *)
(*     definition, lines 342-1177): bounds snapshot capture, rotation and  *)
(*     zoom replay, the asynchronous page render and its cancellation.     *)
(*                                                                         *)
(* Numbers.  Ratios of the unit square are fixed-point integers counted in *)
(* 1/Unit, so the literal 1 of the source is Unit.  Page-space lengths are *)
(* whole page units and viewport lengths are whole pixels.  Inputs are     *)
(* drawn from lattices on which the divisions of the source are exact; the *)
(* only values off the lattice are overlay positions after a replay that   *)
(* applies a zoom factor twice, which are kept to whole pixels.  A         *)
(* JavaScript number that may be NaN or infinite is a record [k, v] (see   *)
(* Num, NaN, PosInf).                                                      *)
(***************************************************************************)
EXTENDS Integers, Sequences, FiniteSets, TLC

\* ------------------------------------------------------------------------
\* Scales and bounds
\* ------------------------------------------------------------------------

\* The literal 1 of normalized (ratio) space, in fixed point: 1.0 = Unit.
Unit == 20

\* Intrinsic page size of the document page (pdf-lib getWidth/getHeight).
PageWidth == 30 * Unit
PageHeight == 40 * Unit

\* Longest side, in 1/Unit, of the rectangles drawn for the pure geometry checks.
MaxSide == 4

\* Most overlays in one page payload, and most page payloads in one save.
MaxOverlays == 2
MaxPages == 2

\* Pages of the uploaded document.
DocPages == 2

Min2(a, b) == IF a <= b THEN a ELSE b
Max2(a, b) == IF a >= b THEN a ELSE b

SetMin(S) == CHOOSE m \in S : \A e \in S : m <= e
SetMax(S) == CHOOSE m \in S : \A e \in S : m >= e

\* ------------------------------------------------------------------------
\* JavaScript numbers that may be non-finite
\* ------------------------------------------------------------------------

Num(n) == [k |-> "num", v |-> n]
NaN == [k |-> "nan", v |-> 0]
PosInf == [k |-> "inf", v |-> 0]
NegInf == [k |-> "ninf", v |-> 0]

\* Number.isFinite
IsFinite(n) == n.k = "num"

\* value / d for a finite d > 0, the quotient counted in 1/Unit.
RatioOver(n, d) == [k |-> n.k, v |-> IF n.k = "num" THEN (n.v * Unit) \div d ELSE 0]

\* ------------------------------------------------------------------------
\* Rotation helpers (save route; the page hook has identical copies)
\* ------------------------------------------------------------------------

\* clamp01: non-finite -> 0, otherwise clamp into [0, 1].
clamp01(value) == IF ~IsFinite(value) THEN 0 ELSE Min2(Unit, Max2(0, value.v))

\* normalizeRotationSteps: Math.round(value / 90) folded into 0..3.
normalizeRotationSteps(value) ==
    IF ~IsFinite(value) THEN 0
    ELSE LET normalized == (value.v + 45) \div 90
         IN  ((normalized % 4) + 4) % 4

\* rotateNormalizedPoint with the three-quarter turn written as a transpose.
rotateNormalizedPointTransposed(point, steps) ==
    CASE steps = 1 -> [x |-> Unit - point.y, y |-> point.x]
      [] steps = 2 -> [x |-> Unit - point.x, y |-> Unit - point.y]
      [] steps = 3 -> [x |-> point.y, y |-> point.x]
      [] OTHER -> point

rotateNormalizedPoint(point, steps) ==
    CASE steps = 1 -> [x |-> Unit - point.y, y |-> point.x]
      [] steps = 2 -> [x |-> Unit - point.x, y |-> Unit - point.y]
      [] steps = 3 -> [x |-> point.y, y |-> Unit - point.x]
      [] OTHER -> point

\* boundsFromPoints that takes the first corner for the minimum.
boundsFromFirstPoint(points) ==
    LET dx == points[3].x - points[1].x
        dy == points[3].y - points[1].y
    IN  [minX |-> points[1].x, minY |-> points[1].y,
         width |-> IF dx < 0 THEN 0 - dx ELSE dx, height |-> IF dy < 0 THEN 0 - dy ELSE dy]

\* boundsFromPoints over the four corners (a sequence of points).
boundsFromPoints(points) ==
    LET xs == {points[i].x : i \in DOMAIN points}
        ys == {points[i].y : i \in DOMAIN points}
        minX == SetMin(xs)
        minY == SetMin(ys)
        maxX == SetMax(xs)
        maxY == SetMax(ys)
    IN  [minX |-> minX, minY |-> minY,
         width |-> Max2(0, maxX - minX), height |-> Max2(0, maxY - minY)]

\* The four corners of a rectangle, in the order the source lists them.
Corners(l, t, w, h) ==
    << [x |-> l, y |-> t], [x |-> l + w, y |-> t],
       [x |-> l + w, y |-> t + h], [x |-> l, y |-> t + h] >>

RotateAll(points, steps) ==
    IF steps = 0 THEN points
    ELSE [i \in DOMAIN points |-> rotateNormalizedPoint(points[i], steps)]

\* ------------------------------------------------------------------------
\* Save route: page-space geometry of one overlay
\* ------------------------------------------------------------------------

\* An absent originalBounds (the field is optional in TextOverlayExport).
NoBounds ==
    [has |-> FALSE, leftRatio |-> Num(0), topRatio |-> Num(0),
     widthRatio |-> Num(0), heightRatio |-> Num(0), captureRotation |-> 0]

Bounds(l, t, w, h, c) ==
    [has |-> TRUE, leftRatio |-> l, topRatio |-> t,
     widthRatio |-> w, heightRatio |-> h, captureRotation |-> c]

\* The null result of deriveBounds and computeMaskBoundsFromOriginal.
NullBounds ==
    [ok |-> FALSE, rectX |-> 0, rectY |-> 0, width |-> 0, height |-> 0,
     baselineY2 |-> 0, fontSize2 |-> 0]

\* deriveBounds.  fontSize2 and baselineY2 are doubled (half page units) so
\* that the floor Math.max(0.5, ...) is the integer 1.
\* Math.max(0.5, overlay.fontSize * verticalScale || 12) with no fallback and
\* no floor: the plain product.
scaleFontSize2Plain(fontSize, pageHeight, viewportHeight) ==
    IF fontSize.k = "num" THEN (2 * fontSize.v * pageHeight) \div viewportHeight ELSE 0

\* Math.max(0.5, overlay.fontSize * verticalScale || 12), doubled: a product
\* that is 0 or NaN gives 12, and nothing goes below 0.5.
scaleFontSize2(fontSize, pageHeight, viewportHeight) ==
    IF fontSize.k # "num" \/ fontSize.v = 0 THEN 24
    ELSE Max2(1, (2 * fontSize.v * pageHeight) \div viewportHeight)

deriveBounds(overlay, pagePayload, pageWidth, pageHeight) ==
    LET viewportWidth == IF pagePayload.width # 0 THEN pagePayload.width ELSE pageWidth
        viewportHeight == IF pagePayload.height # 0 THEN pagePayload.height ELSE pageHeight
    IN
    IF viewportWidth <= 0 \/ viewportHeight <= 0 THEN NullBounds
    ELSE
    LET leftRatio == clamp01(RatioOver(overlay.left, viewportWidth))
        topRatio == clamp01(RatioOver(overlay.top, viewportHeight))
        widthRatio == clamp01(RatioOver(overlay.width, viewportWidth))
        heightRatio == clamp01(RatioOver(overlay.height, viewportHeight))
    IN
    IF widthRatio <= 0 \/ heightRatio <= 0 THEN NullBounds
    ELSE
    LET rotationSteps == normalizeRotationSteps(pagePayload.rotation)
        inverseSteps == (4 - rotationSteps) % 4
        rotatedPoints == Corners(leftRatio, topRatio, widthRatio, heightRatio)
        basePoints == RotateAll(rotatedPoints, inverseSteps)
        normalized == boundsFromPoints(basePoints)
        left == (normalized.minX * pageWidth) \div Unit
        top == (normalized.minY * pageHeight) \div Unit
        width == (normalized.width * pageWidth) \div Unit
        height == (normalized.height * pageHeight) \div Unit
    IN
    IF width <= 0 \/ height <= 0 THEN NullBounds
    ELSE
    LET rectY == pageHeight - (top + height)
        scaledFontSize2 == scaleFontSize2(overlay.fontSize, pageHeight, viewportHeight)
        baselineY2 == 2 * pageHeight - (2 * top + scaledFontSize2)
    IN  [ok |-> TRUE, rectX |-> left, rectY |-> rectY, width |-> width,
         height |-> height, baselineY2 |-> baselineY2, fontSize2 |-> scaledFontSize2]

\* clampRatio that lets every ratio through.
clampRatioNone(value) == value

\* clampRatio, local to computeMaskBoundsFromOriginal (finite input).
clampRatio(value) == Min2(Unit, Max2(0, value))

\* computeMaskBoundsFromOriginal.
computeMaskBoundsFromOriginal(overlay, pagePayload, pageWidth, pageHeight) ==
    LET original == overlay.originalBounds IN
    IF ~original.has THEN NullBounds
    ELSE IF \E value \in {original.leftRatio, original.topRatio,
                          original.widthRatio, original.heightRatio} : ~IsFinite(value)
    THEN NullBounds
    ELSE
    LET rotationSteps == normalizeRotationSteps(pagePayload.rotation)
        captureSteps == normalizeRotationSteps(Num(original.captureRotation))
        rotationDelta == (rotationSteps - captureSteps + 4) % 4
        l == original.leftRatio.v
        t == original.topRatio.v
        w == original.widthRatio.v
        h == original.heightRatio.v
        basePoints ==
            << [x |-> clampRatio(l), y |-> clampRatio(t)],
               [x |-> clampRatio(l + w), y |-> clampRatio(t)],
               [x |-> clampRatio(l + w), y |-> clampRatio(t + h)],
               [x |-> clampRatio(l), y |-> clampRatio(t + h)] >>
        rotatedPoints == RotateAll(basePoints, rotationDelta)
        normalized == boundsFromPoints(rotatedPoints)
        width == (normalized.width * pageWidth) \div Unit
        height == (normalized.height * pageHeight) \div Unit
    IN
    IF width <= 0 \/ height <= 0 THEN NullBounds
    ELSE
    LET left == (normalized.minX * pageWidth) \div Unit
        top == (normalized.minY * pageHeight) \div Unit
        rectY == pageHeight - (top + height)
    IN  [ok |-> TRUE, rectX |-> left, rectY |-> rectY, width |-> width,
         height |-> height, baselineY2 |-> 0, fontSize2 |-> 0]

\* The rectangle part of a bounds record.
RectOf(b) == [rectX |-> b.rectX, rectY |-> b.rectY, width |-> b.width, height |-> b.height]

\* The text check without trim().
IsEmptyText(text) == text = ""

\* !overlay.text.trim(): the text is empty or only whitespace.
IsBlankText(text) == text \in {"", " ", " \n "}

\* applyOverlaysToPage without the "?? bounds" fallback: an overlay whose
\* snapshot gives no mask is skipped.
overlayDrawsWithoutFallback(overlay, idx, pagePayload, pageWidth, pageHeight) ==
    IF IsBlankText(overlay.text) THEN << >>
    ELSE
    LET bounds == deriveBounds(overlay, pagePayload, pageWidth, pageHeight)
        fromOriginal == computeMaskBoundsFromOriginal(overlay, pagePayload, pageWidth, pageHeight)
    IN  IF ~bounds.ok \/ (overlay.originalBounds.has /\ ~fromOriginal.ok) THEN << >>
        ELSE LET maskBounds == IF fromOriginal.ok THEN fromOriginal ELSE bounds IN
             << [op |-> "drawRectangle", ov |-> idx, x |-> maskBounds.rectX,
                 y2 |-> 2 * maskBounds.rectY, width |-> maskBounds.width,
                 height |-> maskBounds.height, size2 |-> 0,
                 color |-> "rgb(1,1,1)", opacity |-> 1],
                [op |-> "drawText", ov |-> idx, x |-> bounds.rectX,
                 y2 |-> bounds.baselineY2, width |-> bounds.width,
                 height |-> 0, size2 |-> bounds.fontSize2,
                 color |-> "fill", opacity |-> 1] >>

\* applyOverlaysToPage with the two drawing calls exchanged: the text is
\* drawn first and the white rectangle over it.
overlayDrawsTextFirst(overlay, idx, pagePayload, pageWidth, pageHeight) ==
    IF IsBlankText(overlay.text) THEN << >>
    ELSE
    LET bounds == deriveBounds(overlay, pagePayload, pageWidth, pageHeight) IN
    IF ~bounds.ok THEN << >>
    ELSE
    LET fromOriginal == computeMaskBoundsFromOriginal(overlay, pagePayload, pageWidth, pageHeight)
        maskBounds == IF fromOriginal.ok THEN fromOriginal ELSE bounds
    IN  << [op |-> "drawText", ov |-> idx, x |-> bounds.rectX,
            y2 |-> bounds.baselineY2, width |-> bounds.width,
            height |-> 0, size2 |-> bounds.fontSize2, color |-> "fill", opacity |-> 1],
           [op |-> "drawRectangle", ov |-> idx, x |-> maskBounds.rectX,
            y2 |-> 2 * maskBounds.rectY, width |-> maskBounds.width,
            height |-> maskBounds.height, size2 |-> 0, color |-> "rgb(1,1,1)",
            opacity |-> 1] >>

\* One iteration of the for-loop of applyOverlaysToPage: the drawing calls
\* overlay number idx adds to the page (none when the overlay is skipped).
\* A drawRectangle record is the rectangle drawn; a drawText record carries
\* x, the doubled baseline y2, maxWidth as width and the doubled size.
overlayDraws(overlay, idx, pagePayload, pageWidth, pageHeight) ==
    IF IsBlankText(overlay.text) THEN << >>
    ELSE
    LET bounds == deriveBounds(overlay, pagePayload, pageWidth, pageHeight) IN
    IF ~bounds.ok THEN << >>
    ELSE
    LET fromOriginal == computeMaskBoundsFromOriginal(overlay, pagePayload, pageWidth, pageHeight)
        maskBounds == IF fromOriginal.ok THEN fromOriginal ELSE bounds
    IN  << [op |-> "drawRectangle", ov |-> idx, x |-> maskBounds.rectX,
            y2 |-> 2 * maskBounds.rectY, width |-> maskBounds.width,
            height |-> maskBounds.height, size2 |-> 0,
                 color |-> "rgb(1,1,1)", opacity |-> 1],
           [op |-> "drawText", ov |-> idx, x |-> bounds.rectX,
            y2 |-> bounds.baselineY2, width |-> bounds.width,
            height |-> 0, size2 |-> bounds.fontSize2,
                 color |-> "fill", opacity |-> 1] >>

\* ------------------------------------------------------------------------
\* Page hook (useFabricPageRender): state
\* ------------------------------------------------------------------------

\* Page renders started by one mounted page canvas (caps snapshotVersionRef).
MaxRenders == 3

\* Textbox objects ever created for the page.
MaxTextboxes == 1

\* Zoom percentages the toolbar puts in the store.
ZoomLevels == {100, 200}

\* Rectangles, in 1/Unit of the viewport, that a created textbox can occupy
\* (Fabric measures the text, so the rectangle is an input), and the places
\* a user can drag a textbox to.
SeedRects == { [l |-> 2, t |-> 2, w |-> 4, h |-> 1] }
MoveTargets == { [x |-> 6, y |-> 10], [x |-> 18, y |-> 19] }
ResizeWidth == 8

BoxIds == 1..MaxTextboxes
RenderIds == 1..MaxRenders

VARIABLES
    \* pure geometry checks
    gRect, gA, gB, gPc, gOut,
    \* save route
    svPc, svPages, svQueue, svPage, svCount, svSeen, svDraws, svLog, svModified, svResult,
    svResponse,
    \* store props of the page canvas
    zoom, rotation, editMode,
    \* hook state and refs
    isRendering, canvasMade, canvasSize, fabricModule, prevZoom, prevRotation,
    prevViewport, userObjects, activeObject, snapshotVersion, editModeRef,
    \* textboxes, in-flight renders, and the last save of the page
    seed, boxes, nextBox, renders, rendersStarted, saved,
    \* parse route: font name resolution of onChar
    fnPc, fnName, fnOut,
    \* parse route: deriveParagraphLineHeight
    lhPc, lhLines, lhBlockHeight, lhOut,
    \* parse route: characters, lines, words and blocks of one page
    psPc, psItems, psLines, psWords, psBlocks,
    \* parse route: colour of one character
    clPc, clData, clOut,
    \* parse route: the request, the page loop and the response
    ppPc, ppReq, ppI, ppPages, ppResp,
    \* usePdfDocument: the fileUrl prop, the hook's state, the state updates
    \* queued by startTransition, the loads started, the documents destroyed
    dcPc, dcUrl, dcState, dcPending, dcLoads, dcEffect, dcStarted, dcDestroyed,
    \* the page component: the store, fileUrl, the object URLs created, the
    \* pending fit, and the rotate clicks per page since the last upload
    pgPc, pgStore, pgFileUrl, pgUrls, pgPendingFit, pgClicks,
    \* the export store: the registered page exporters and what the last
    \* captureAllPages returned
    exporters, exSnapshots, exCaptured

geomVars == << gRect, gA, gB, gPc, gOut >>
saveVars == << svPc, svPages, svQueue, svPage, svCount, svSeen, svDraws, svLog,
              svModified, svResult, svResponse >>
hookVars == << zoom, rotation, editMode, isRendering, canvasMade, canvasSize,
               fabricModule, prevZoom, prevRotation, prevViewport, userObjects,
               activeObject, snapshotVersion, editModeRef, seed, boxes, nextBox,
               renders, rendersStarted, saved >>
parseVars == << fnPc, fnName, fnOut, lhPc, lhLines, lhBlockHeight, lhOut,
               psPc, psItems, psLines, psWords, psBlocks >>
colorVars == << clPc, clData, clOut >>
pagesVars == << ppPc, ppReq, ppI, ppPages, ppResp >>
docVars == << dcPc, dcUrl, dcState, dcPending, dcLoads, dcEffect, dcStarted, dcDestroyed >>
pageVars == << pgPc, pgStore, pgFileUrl, pgUrls, pgPendingFit, pgClicks >>
exportVars == << exporters, exSnapshots, exCaptured >>
lateVars == << colorVars, pagesVars, docVars, pageVars, exportVars >>
earlyVars == << geomVars, saveVars, hookVars, parseVars >>
notColor == << earlyVars, pagesVars, docVars, pageVars, exportVars >>
notPages == << earlyVars, colorVars, docVars, pageVars, exportVars >>
notDoc == << earlyVars, colorVars, pagesVars, pageVars, exportVars >>
notPage == << earlyVars, colorVars, pagesVars, docVars, exportVars >>
notExport == << earlyVars, colorVars, pagesVars, docVars, pageVars >>
vars == << geomVars, saveVars, hookVars, parseVars, lateVars >>

NoSize == [has |-> FALSE, width |-> 0, height |-> 0]
Size(w, h) == [has |-> TRUE, width |-> w, height |-> h]

\* pdf.js page.getViewport({scale: zoom / 100, rotation}): the page size
\* scaled, with width and height swapped for a quarter or three-quarter turn.
Viewport(z, rot) ==
    IF normalizeRotationSteps(Num(rot)) % 2 = 0
    THEN Size((PageWidth * z) \div 100, (PageHeight * z) \div 100)
    ELSE Size((PageHeight * z) \div 100, (PageWidth * z) \div 100)

\* A textbox that was never created.
NoBox ==
    [made |-> FALSE, onCanvas |-> FALSE, left |-> 0, top |-> 0, w |-> 0, h |-> 0,
     angle |-> 0, selectable |-> FALSE,
     dataRevealed |-> FALSE, dataBounds |-> NoBounds,
     hasMeta |-> FALSE, metaRevealed |-> FALSE, metaBounds |-> NoBounds,
     metaPatch |-> FALSE, metaVersion |-> 0, bound |-> FALSE, bindRot |-> 0,
     pristine |-> FALSE]

NoRender == [pc |-> "none", rot |-> 0, zoom |-> 0, edit |-> FALSE, cancelled |-> FALSE, isNew |-> FALSE]

\* The refs the callbacks read.
Ctx == [fabricModule |-> fabricModule, prevViewport |-> prevViewport,
        canvasSize |-> canvasSize, snapshotVersion |-> snapshotVersion]

\* ------------------------------------------------------------------------
\* Page hook: callbacks on one textbox (a record of boxes)
\* ------------------------------------------------------------------------

\* textbox.getBoundingRect() of a box with origin left/top and an angle that
\* is a multiple of 90 degrees.
BoundingRect(b) ==
    CASE b.angle = 90 -> [left |-> b.left - b.h, top |-> b.top, width |-> b.h, height |-> b.w]
      [] b.angle = 180 -> [left |-> b.left - b.w, top |-> b.top - b.h, width |-> b.w, height |-> b.h]
      [] b.angle = 270 -> [left |-> b.left, top |-> b.top - b.w, width |-> b.h, height |-> b.w]
      [] OTHER -> [left |-> b.left, top |-> b.top, width |-> b.w, height |-> b.h]

\* ensureTextboxMeta that rebuilds a missing entry without reading textbox.data.
ensureTextboxMetaFresh(b) ==
    IF b.hasMeta THEN b
    ELSE [b EXCEPT !.hasMeta = TRUE, !.metaRevealed = FALSE,
                   !.metaBounds = NoBounds, !.metaPatch = FALSE,
                   !.metaVersion = 0, !.bound = FALSE, !.bindRot = 0]

\* ensureTextboxMeta: a missing side-table entry is rebuilt from textbox.data.
ensureTextboxMeta(b) ==
    IF b.hasMeta THEN b
    ELSE [b EXCEPT !.hasMeta = TRUE, !.metaRevealed = b.dataRevealed,
                   !.metaBounds = b.dataBounds, !.metaPatch = FALSE,
                   !.metaVersion = 0, !.bound = FALSE, !.bindRot = 0]

\* handleRemoved (the 'removed' event of a bound textbox): the patch is
\* dropped, the handlers are taken off and the side-table entry is deleted.
handleRemoved(b) ==
    [b EXCEPT !.hasMeta = FALSE, !.metaRevealed = FALSE, !.metaBounds = NoBounds,
              !.metaPatch = FALSE, !.metaVersion = 0, !.bound = FALSE, !.bindRot = 0]

\* canvas.remove(textbox) / canvas.clear(): Fabric fires 'removed'.
fireRemoved(b) == IF b.bound THEN handleRemoved(b) ELSE b

\* captureTextboxBoundsSnapshot with the sides divided by the wrong extent.
captureTextboxBoundsSnapshotSwapped(b, viewportSize, rot) ==
    LET rect == BoundingRect(b)
        bounds == Bounds(Num((rect.left * Unit) \div viewportSize.width),
                         Num((rect.top * Unit) \div viewportSize.height),
                         Num((rect.width * Unit) \div viewportSize.height),
                         Num((rect.height * Unit) \div viewportSize.width),
                         normalizeRotationSteps(Num(rot)) * 90)
        meta == ensureTextboxMeta(b)
    IN  [meta EXCEPT !.metaBounds = bounds, !.dataBounds = bounds, !.pristine = TRUE]

\* captureTextboxBoundsSnapshot, with the rotation its closure holds.
captureTextboxBoundsSnapshot(b, viewportSize, rot) ==
    LET rect == BoundingRect(b)
        bounds == Bounds(Num((rect.left * Unit) \div viewportSize.width),
                         Num((rect.top * Unit) \div viewportSize.height),
                         Num((rect.width * Unit) \div viewportSize.width),
                         Num((rect.height * Unit) \div viewportSize.height),
                         normalizeRotationSteps(Num(rot)) * 90)
        meta == ensureTextboxMeta(b)
    IN  [meta EXCEPT !.metaBounds = bounds, !.dataBounds = bounds, !.pristine = TRUE]

\* ensureBackgroundPatch, with the rotation its closure holds.  The patch
\* rectangle itself is not kept, only that the entry has one.
ensureBackgroundPatch(b, ctx, rot) ==
    IF ~ctx.fabricModule THEN b
    ELSE
    LET meta == ensureTextboxMeta(b) IN
    IF meta.metaPatch /\ meta.metaVersion = ctx.snapshotVersion THEN meta
    ELSE
    LET dropped == [meta EXCEPT !.metaPatch = FALSE]
        viewportSize == IF ctx.prevViewport.has THEN ctx.prevViewport
                        ELSE IF b.onCanvas THEN ctx.canvasSize ELSE NoSize
    IN
    IF ~viewportSize.has THEN dropped
    ELSE
    LET withBounds == IF dropped.metaBounds.has THEN dropped
                      ELSE captureTextboxBoundsSnapshot(dropped, viewportSize, rot)
        patched == [withBounds EXCEPT !.metaPatch = TRUE, !.metaVersion = ctx.snapshotVersion]
    IN  IF patched.onCanvas THEN fireRemoved(patched) ELSE patched

\* activateTextbox, with the rotation its closure holds.
activateTextbox(b, ctx, rot) ==
    LET meta == ensureTextboxMeta(b)
        revealed == [meta EXCEPT !.metaRevealed = TRUE, !.dataRevealed = TRUE]
    IN  ensureBackgroundPatch(revealed, ctx, rot)

\* setTextboxIdleAppearance: opacity only, but it creates the meta entry.
setTextboxIdleAppearance(b) == ensureTextboxMeta(b)

\* enforceTextboxBounds that only pulls a textbox back from the left and top
\* edges.
enforceTextboxBoundsLeftTop(b, ctx) ==
    IF ~b.onCanvas THEN b
    ELSE
    LET rect == BoundingRect(b)
        deltaX == IF rect.left < 0 THEN 0 - rect.left ELSE 0
        deltaY == IF rect.top < 0 THEN 0 - rect.top ELSE 0
    IN  IF deltaX # 0 \/ deltaY # 0
        THEN [b EXCEPT !.left = b.left + deltaX, !.top = b.top + deltaY, !.pristine = FALSE]
        ELSE b

\* enforceTextboxBounds.
enforceTextboxBounds(b, ctx) ==
    IF ~b.onCanvas THEN b
    ELSE
    LET rect == BoundingRect(b)
        dx0 == IF rect.left < 0 THEN 0 - rect.left ELSE 0
        dy0 == IF rect.top < 0 THEN 0 - rect.top ELSE 0
        overflowRight == rect.left + rect.width - ctx.canvasSize.width
        overflowBottom == rect.top + rect.height - ctx.canvasSize.height
        deltaX == IF overflowRight > 0 THEN dx0 - overflowRight ELSE dx0
        deltaY == IF overflowBottom > 0 THEN dy0 - overflowBottom ELSE dy0
    IN  IF deltaX # 0 \/ deltaY # 0
        THEN [b EXCEPT !.left = b.left + deltaX, !.top = b.top + deltaY, !.pristine = FALSE]
        ELSE b

\* bindTextboxInteractions: binds once; the handlers keep the callbacks, and
\* so the rotation, of the React render that bound them.
bindTextboxInteractions(b, ctx, rot) ==
    LET meta == ensureTextboxMeta(b) IN
    IF meta.bound THEN meta
    ELSE enforceTextboxBounds([meta EXCEPT !.bound = TRUE, !.bindRot = rot], ctx)

\* registerTextboxes, for one entry.
registerTextbox(b, ctx, rot) ==
    enforceTextboxBounds(setTextboxIdleAppearance(bindTextboxInteractions(b, ctx, rot)), ctx)

\* applyRotationTransform (origin left/top, so the origin offsets are 0).
applyRotationTransform(b, prevVp, nextVp, rotationStepDelta) ==
    IF rotationStepDelta = 0 THEN b
    ELSE
    LET alongX == (b.left * nextVp.width) \div prevVp.width
        alongY == (b.top * nextVp.height) \div prevVp.height
        crossX == (b.top * nextVp.width) \div prevVp.height
        crossY == (b.left * nextVp.height) \div prevVp.width
        newLeft == CASE rotationStepDelta = 1 -> nextVp.width - crossX
                     [] rotationStepDelta = 2 -> nextVp.width - alongX
                     [] rotationStepDelta = 3 -> crossX
                     [] OTHER -> alongX
        newTop == CASE rotationStepDelta = 1 -> crossY
                    [] rotationStepDelta = 2 -> nextVp.height - alongY
                    [] rotationStepDelta = 3 -> nextVp.height - crossY
                    [] OTHER -> alongY
    IN  [b EXCEPT !.left = newLeft, !.top = newTop,
                  !.angle = (b.angle + rotationStepDelta * 90) % 360]

\* applyZoomTransform, zoomScale = zoomTo / zoomFrom.
applyZoomTransform(b, zoomTo, zoomFrom) ==
    IF zoomTo = zoomFrom THEN b
    ELSE [b EXCEPT !.left = (b.left * zoomTo) \div zoomFrom,
                   !.top = (b.top * zoomTo) \div zoomFrom,
                   !.w = (b.w * zoomTo) \div zoomFrom,
                   !.h = (b.h * zoomTo) \div zoomFrom,
                   !.pristine = FALSE]

\* The replay of one user object when a re-render restores it (render
\* effect, "Restore existing user objects").
replayTransforms(b, prevVp, nextVp, prevRot, rot, zoomTo, zoomFrom) ==
    LET prevRotationSteps == normalizeRotationSteps(Num(prevRot))
        currentRotationSteps == normalizeRotationSteps(Num(rot))
        rotationStepDelta == (currentRotationSteps - prevRotationSteps + 4) % 4
    IN  IF rotationStepDelta # 0
        THEN applyZoomTransform(applyRotationTransform(b, prevVp, nextVp, rotationStepDelta),
                                zoomTo, zoomFrom)
        ELSE applyZoomTransform(b, zoomTo, zoomFrom)

\* createFabricTextBlock for the parsed block, placed in viewport vp.
createTextbox(rect, vp) ==
    [NoBox EXCEPT !.made = TRUE, !.onCanvas = TRUE, !.selectable = TRUE,
                  !.left = (rect.l * vp.width) \div Unit,
                  !.top = (rect.t * vp.height) \div Unit,
                  !.w = (rect.w * vp.width) \div Unit,
                  !.h = (rect.h * vp.height) \div Unit]

\* ------------------------------------------------------------------------
\* Page hook: effects
\* ------------------------------------------------------------------------

\* The edit-mode effect (deps: activateTextbox, editMode, isRendering, ...),
\* run by the React render whose props are edit and rot.
EditModeEffect(bxs, ctx, made, edit, rot, active, uobjs) ==
    IF ~made THEN bxs
    ELSE [i \in BoxIds |->
            IF i \notin uobjs THEN bxs[i]
            ELSE LET b == [bxs[i] EXCEPT !.selectable = edit] IN
                 IF edit
                 THEN IF i = active THEN activateTextbox(b, ctx, rot)
                      ELSE IF b.hasMeta /\ b.metaRevealed THEN ensureBackgroundPatch(b, ctx, rot)
                      ELSE setTextboxIdleAppearance(b)
                 ELSE setTextboxIdleAppearance(b)]

\* Whether the "add parsed blocks" effect passes its guards.
AddsParsedBlocks(ctx, made, edit, uobjs) ==
    made /\ edit /\ uobjs = {} /\ ctx.prevViewport.has

\* The "add parsed blocks" effect: one textbox per parsed block, placed in
\* the last completed viewport and registered with the current callbacks.
AddParsedBlocks(bxs, ctx, rot, id) ==
    [bxs EXCEPT ![id] = registerTextbox(createTextbox(seed, ctx.prevViewport), ctx, rot)]

\* Cleanup of the render effect: cancelled = true for the render in flight.
\* A render still awaiting getPage or the render task does nothing more
\* than return at its next "if (cancelled) return" (or at the rejection of
\* the cancelled render task), so it is retired here; a render past the
\* import keeps running with the flag set.
CancelRenders(rs) ==
    [r \in RenderIds |->
        CASE rs[r].pc \in {"getPage", "renderTask"} -> [rs[r] EXCEPT !.pc = "done", !.cancelled = TRUE]
          [] rs[r].pc \in {"import", "image"} -> [rs[r] EXCEPT !.cancelled = TRUE]
          [] OTHER -> rs[r]]

\* The props change to (newRot, newZoom): cleanup, the two edit effects when
\* their deps changed (rerunEdit), then a new render starts.
PropsChange(newRot, newZoom, rerunEdit) ==
    /\ rendersStarted < MaxRenders
    /\ LET ctx == Ctx
           afterEdit == IF rerunEdit \/ ~isRendering
                        THEN EditModeEffect(boxes, ctx, canvasMade, editMode, newRot,
                                            activeObject, userObjects)
                        ELSE boxes
           adds == rerunEdit /\ AddsParsedBlocks(ctx, canvasMade, editMode, userObjects)
       IN  /\ adds => nextBox <= MaxTextboxes
           /\ boxes' = IF adds THEN AddParsedBlocks(afterEdit, ctx, newRot, nextBox) ELSE afterEdit
           /\ userObjects' = IF adds THEN {nextBox} ELSE userObjects
           /\ nextBox' = IF adds THEN nextBox + 1 ELSE nextBox
    /\ editModeRef' = IF canvasMade /\ (rerunEdit \/ ~isRendering) THEN editMode ELSE editModeRef
    /\ rotation' = newRot
    /\ zoom' = newZoom
    /\ isRendering' = TRUE
    /\ rendersStarted' = rendersStarted + 1
    /\ renders' = [CancelRenders(renders) EXCEPT ![rendersStarted + 1] =
                      [pc |-> "getPage", rot |-> newRot, zoom |-> newZoom,
                       edit |-> editMode, cancelled |-> FALSE, isNew |-> FALSE]]
    /\ UNCHANGED << editMode, canvasMade, canvasSize, fabricModule, prevZoom, prevRotation,
                    prevViewport, activeObject, snapshotVersion, seed, saved >>

\* A click on the minimap's rotate button: handleRotate(page, 90), then
\* setRotation normalizes into 0..359.
RotatePage ==
    /\ ~saved.has
    /\ PropsChange((rotation + 90) % 360, zoom, TRUE)
    /\ UNCHANGED << geomVars, saveVars, parseVars, lateVars >>

\* The toolbar sets another zoom.
ZoomTo(z) ==
    /\ ~saved.has
    /\ z # zoom
    /\ PropsChange(rotation, z, FALSE)
    /\ UNCHANGED << geomVars, saveVars, parseVars, lateVars >>

\* setEditMode(!editMode): both edit effects run.
ToggleEditMode ==
    /\ ~saved.has
    /\ LET ctx == Ctx
           edit == ~editMode
           afterEdit == EditModeEffect(boxes, ctx, canvasMade, edit, rotation,
                                       activeObject, userObjects)
           adds == AddsParsedBlocks(ctx, canvasMade, edit, userObjects)
       IN  /\ adds => nextBox <= MaxTextboxes
           /\ boxes' = IF adds THEN AddParsedBlocks(afterEdit, ctx, rotation, nextBox) ELSE afterEdit
           /\ userObjects' = IF adds THEN {nextBox} ELSE userObjects
           /\ nextBox' = IF adds THEN nextBox + 1 ELSE nextBox
    /\ editMode' = ~editMode
    /\ editModeRef' = IF canvasMade THEN ~editMode ELSE editModeRef
    /\ UNCHANGED << zoom, rotation, isRendering, canvasMade, canvasSize, fabricModule,
                    prevZoom, prevRotation, prevViewport, activeObject, snapshotVersion,
                    seed, renders, rendersStarted, saved >>
    /\ UNCHANGED << geomVars, saveVars, parseVars, lateVars >>

\* ------------------------------------------------------------------------
\* Page hook: user events on a textbox
\* ------------------------------------------------------------------------

\* The user selects textbox i: the canvas makes it the active object and
\* fires 'selected'; a bound textbox runs handleSelected.
SelectTextbox(i) ==
    /\ ~saved.has
    /\ canvasMade /\ boxes[i].onCanvas /\ boxes[i].selectable
    /\ activeObject # i
    /\ activeObject' = i
    /\ boxes' = [boxes EXCEPT ![i] =
                    IF boxes[i].bound THEN activateTextbox(boxes[i], Ctx, boxes[i].bindRot)
                    ELSE boxes[i]]
    /\ UNCHANGED << zoom, rotation, editMode, isRendering, canvasMade, canvasSize,
                    fabricModule, prevZoom, prevRotation, prevViewport, userObjects,
                    snapshotVersion, editModeRef, seed, nextBox, renders, rendersStarted, saved >>
    /\ UNCHANGED << geomVars, saveVars, parseVars, lateVars >>

\* The user clicks away: 'deselected' (handleDeselected touches opacity only).
DeselectTextbox ==
    /\ ~saved.has
    /\ activeObject # 0
    /\ activeObject' = 0
    /\ UNCHANGED << zoom, rotation, editMode, isRendering, canvasMade, canvasSize,
                    fabricModule, prevZoom, prevRotation, prevViewport, userObjects,
                    snapshotVersion, editModeRef, seed, boxes, nextBox, renders,
                    rendersStarted, saved >>
    /\ UNCHANGED << geomVars, saveVars, parseVars, lateVars >>

\* handleMoving / handleModified that also take a new snapshot.
afterUserEditRecapture(b, ctx) ==
    LET edited == [b EXCEPT !.pristine = FALSE]
        moved == IF edited.bound THEN enforceTextboxBounds(edited, ctx) ELSE edited
    IN  IF moved.bound /\ ctx.prevViewport.has
        THEN captureTextboxBoundsSnapshot(moved, ctx.prevViewport, moved.bindRot)
        ELSE moved

\* The moved or resized textbox after 'moving' / 'modified': a bound textbox
\* runs handleMoving / handleModified, which only call enforceTextboxBounds.
afterUserEdit(b, ctx) ==
    LET edited == [b EXCEPT !.pristine = FALSE]
    IN  IF edited.bound THEN enforceTextboxBounds(edited, ctx) ELSE edited

\* The user drags the active textbox so that its origin lands on target.
MoveTextbox(i, target) ==
    /\ ~saved.has
    /\ activeObject = i /\ boxes[i].onCanvas /\ boxes[i].selectable
    /\ LET newLeft == (target.x * canvasSize.width) \div Unit
           newTop == (target.y * canvasSize.height) \div Unit
       IN  /\ << newLeft, newTop >> # << boxes[i].left, boxes[i].top >>
           /\ boxes' = [boxes EXCEPT ![i] =
                           afterUserEdit([boxes[i] EXCEPT !.left = newLeft, !.top = newTop], Ctx)]
    /\ UNCHANGED << zoom, rotation, editMode, isRendering, canvasMade, canvasSize,
                    fabricModule, prevZoom, prevRotation, prevViewport, userObjects,
                    activeObject, snapshotVersion, editModeRef, seed, nextBox, renders,
                    rendersStarted, saved >>
    /\ UNCHANGED << geomVars, saveVars, parseVars, lateVars >>

\* The user drags a corner of the active textbox: the 'scaling' handler of
\* FabricTextBlock turns the scale into a new width (here: ResizeWidth/Unit
\* of the canvas width).
ResizeTextbox(i) ==
    /\ ~saved.has
    /\ activeObject = i /\ boxes[i].onCanvas /\ boxes[i].selectable
    /\ LET newWidth == (ResizeWidth * canvasSize.width) \div Unit
       IN  /\ newWidth # boxes[i].w
           /\ boxes' = [boxes EXCEPT ![i] = afterUserEdit([boxes[i] EXCEPT !.w = newWidth], Ctx)]
    /\ UNCHANGED << zoom, rotation, editMode, isRendering, canvasMade, canvasSize,
                    fabricModule, prevZoom, prevRotation, prevViewport, userObjects,
                    activeObject, snapshotVersion, editModeRef, seed, nextBox, renders,
                    rendersStarted, saved >>
    /\ UNCHANGED << geomVars, saveVars, parseVars, lateVars >>

\* ------------------------------------------------------------------------
\* Page hook: the render effect, one action per await
\* ------------------------------------------------------------------------

\* Everything a render step leaves alone unless it says otherwise.
StoreUnchanged == UNCHANGED << zoom, rotation, editMode, seed, rendersStarted, saved >>

\* await doc.getPage(pageNumber) returns to a render that was not cancelled.
RenderGetPageDone(r) ==
    /\ ~saved.has
    /\ renders[r].pc = "getPage"
    /\ renders' = [renders EXCEPT ![r].pc = "renderTask"]
    /\ StoreUnchanged
    /\ UNCHANGED << isRendering, canvasMade, canvasSize, fabricModule, prevZoom, prevRotation,
                    prevViewport, userObjects, activeObject, snapshotVersion, editModeRef,
                    boxes, nextBox >>
    /\ UNCHANGED << geomVars, saveVars, parseVars, lateVars >>

\* After the first import of fabric resolved (or at once when it is cached):
\* the canvas is created, or the user objects are saved and the canvas is
\* cleared; then the canvas takes the size of the render's viewport.
CanvasPrepare(r) ==
    /\ canvasMade' = TRUE
    /\ canvasSize' = Viewport(renders[r].zoom, renders[r].rot)
    /\ IF ~canvasMade
       THEN UNCHANGED << userObjects, boxes, activeObject >>
       ELSE /\ userObjects' = {i \in BoxIds : boxes[i].onCanvas}
            /\ boxes' = [i \in BoxIds |->
                            IF boxes[i].onCanvas
                            THEN [fireRemoved(boxes[i]) EXCEPT !.onCanvas = FALSE]
                            ELSE boxes[i]]
            /\ activeObject' = 0
    /\ renders' = [renders EXCEPT ![r].pc = "image", ![r].isNew = ~canvasMade]

\* await renderTask.promise returns to a render that was not cancelled:
\* snapshotVersionRef += 1; then the import of fabric.
RenderTaskDone(r) ==
    /\ ~saved.has
    /\ renders[r].pc = "renderTask"
    /\ snapshotVersion' = snapshotVersion + 1
    /\ IF fabricModule
       THEN CanvasPrepare(r)
       ELSE /\ renders' = [renders EXCEPT ![r].pc = "import"]
            /\ UNCHANGED << canvasMade, canvasSize, userObjects, boxes, activeObject >>
    /\ StoreUnchanged
    /\ UNCHANGED << isRendering, fabricModule, prevZoom, prevRotation, prevViewport,
                    editModeRef, nextBox >>
    /\ UNCHANGED << geomVars, saveVars, parseVars, lateVars >>

\* The first await import("fabric") returns; there is no cancel check here.
\* Every render awaiting the import waits for the same module to load, and
\* their continuations run in the order the renders reached the await.
RenderImportDone(r) ==
    /\ ~saved.has
    /\ renders[r].pc = "import"
    /\ \A q \in RenderIds : q < r => renders[q].pc # "import"
    /\ fabricModule' = TRUE
    /\ CanvasPrepare(r)
    /\ StoreUnchanged
    /\ UNCHANGED << isRendering, prevZoom, prevRotation, prevViewport, snapshotVersion,
                    editModeRef, nextBox >>
    /\ UNCHANGED << geomVars, saveVars, parseVars, lateVars >>

\* await FabricImage.fromURL returns; if (cancelled) return; otherwise the
\* refs are updated, the user objects are restored (or the parsed block's
\* textbox is created), isRendering becomes false and the edit-mode effect
\* of the current React render runs.
RenderImageDone(r) ==
    /\ ~saved.has
    /\ renders[r].pc = "image"
    /\ renders' = [renders EXCEPT ![r].pc = "done"]
    /\ IF renders[r].cancelled
       THEN UNCHANGED << isRendering, prevZoom, prevRotation, prevViewport, userObjects,
                         editModeRef, boxes, nextBox >>
       ELSE LET rr == renders[r]
                viewport == Viewport(rr.zoom, rr.rot)
                ctx == [Ctx EXCEPT !.prevViewport = viewport]
                creates == userObjects = {} /\ rr.isNew /\ rr.edit
                restored ==
                    [i \in BoxIds |->
                        IF i \notin userObjects THEN boxes[i]
                        ELSE LET b == IF ~rr.isNew /\ prevViewport.has
                                      THEN replayTransforms(boxes[i], prevViewport, viewport,
                                                            prevRotation, rr.rot, rr.zoom, prevZoom)
                                      ELSE boxes[i]
                             IN  registerTextbox([b EXCEPT !.onCanvas = TRUE], ctx, rr.rot)]
                created ==
                    [boxes EXCEPT ![nextBox] =
                        registerTextbox(createTextbox(seed, viewport), ctx, rr.rot)]
                objs == IF creates THEN {nextBox} ELSE userObjects
                bxs == IF creates THEN created ELSE restored
            IN  /\ creates => nextBox <= MaxTextboxes
                /\ prevZoom' = rr.zoom
                /\ prevRotation' = rr.rot
                /\ prevViewport' = viewport
                /\ userObjects' = objs
                /\ nextBox' = IF creates THEN nextBox + 1 ELSE nextBox
                /\ isRendering' = FALSE
                /\ editModeRef' = editMode
                /\ boxes' = EditModeEffect(bxs, ctx, TRUE, editMode, rotation, activeObject, objs)
    /\ StoreUnchanged
    /\ UNCHANGED << canvasMade, canvasSize, fabricModule, activeObject, snapshotVersion >>
    /\ UNCHANGED << geomVars, saveVars, parseVars, lateVars >>

\* A render that fails without a finally block: the flag is left as it is.
RenderFailsKeepingFlag(r) ==
    /\ ~saved.has
    /\ renders[r].pc \in {"getPage", "renderTask", "import", "image"}
    /\ renders' = [renders EXCEPT ![r].pc = "failed"]
    /\ UNCHANGED << zoom, rotation, editMode, isRendering, canvasMade, canvasSize,
                    fabricModule, prevZoom, prevRotation, prevViewport, userObjects,
                    activeObject, snapshotVersion, editModeRef, seed, boxes, nextBox,
                    rendersStarted, saved >>
    /\ UNCHANGED << geomVars, saveVars, parseVars, lateVars >>

\* An await of render r rejects (getPage, a render task failing for another
\* reason than a cancellation, the import, FabricImage.fromURL) or the render
\* returns early for want of a 2d context: catch logs, and finally sets
\* isRendering to false unless the render was cancelled.  The edit-mode
\* effect depends on isRendering and runs with the React render that follows.
RenderFails(r) ==
    /\ ~saved.has
    /\ renders[r].pc \in {"getPage", "renderTask", "import", "image"}
    /\ renders' = [renders EXCEPT ![r].pc = "failed"]
    /\ IF renders[r].cancelled
       THEN UNCHANGED << isRendering, editModeRef, boxes >>
       ELSE /\ isRendering' = FALSE
            /\ editModeRef' = IF canvasMade THEN editMode ELSE editModeRef
            /\ boxes' = EditModeEffect(boxes, Ctx, canvasMade, editMode, rotation,
                                       activeObject, userObjects)
    /\ StoreUnchanged
    /\ UNCHANGED << canvasMade, canvasSize, fabricModule, prevZoom, prevRotation, prevViewport,
                    userObjects, activeObject, snapshotVersion, nextBox >>
    /\ UNCHANGED << geomVars, saveVars, parseVars, lateVars >>

\* ------------------------------------------------------------------------
\* Saving the page shown by the hook
\* ------------------------------------------------------------------------

NoPlan == [on |-> FALSE, pristine |-> FALSE, snapshot |-> NoBounds,
           bounds |-> NullBounds, mask |-> NullBounds]
NoSave == [has |-> FALSE, rotation |-> 0, plan |-> [i \in BoxIds |-> NoPlan]]

\* The bounds snapshot of textbox b: the side-table entry, or, while the
\* entry is deleted, what persistOverlayData left in textbox.data.
originalBoundsOf(b) == IF b.hasMeta THEN b.metaBounds ELSE b.dataBounds

\* The overlay the page exporter sends for textbox b: its current pixel
\* rectangle and its bounds snapshot.
exportOverlay(b) ==
    LET rect == BoundingRect(b)
    IN  [text |-> "Hi", left |-> Num(rect.left), top |-> Num(rect.top),
         width |-> Num(rect.width), height |-> Num(rect.height), fontSize |-> Num(12),
         originalBounds |-> originalBoundsOf(b)]

\* The page payload of the exporter: the viewport and rotation on display.
exportPageData ==
    [pageNumber |-> 1, width |-> prevViewport.width, height |-> prevViewport.height,
     rotation |-> Num(prevRotation)]

\* The user saves: the exporter's payload goes through deriveBounds and
\* computeMaskBoundsFromOriginal of the save route.  A save ends the session
\* that is explored.
SaveDocument ==
    /\ ~saved.has
    /\ canvasMade /\ prevViewport.has
    /\ saved' =
          [has |-> TRUE, rotation |-> prevRotation,
           plan |-> [i \in BoxIds |->
              IF ~boxes[i].onCanvas THEN NoPlan
              ELSE LET ov == exportOverlay(boxes[i]) IN
                   [on |-> TRUE, pristine |-> boxes[i].pristine,
                    snapshot |-> ov.originalBounds,
                    bounds |-> deriveBounds(ov, exportPageData, PageWidth, PageHeight),
                    mask |-> computeMaskBoundsFromOriginal(ov, exportPageData,
                                                           PageWidth, PageHeight)]]]
    /\ UNCHANGED << zoom, rotation, editMode, isRendering, canvasMade, canvasSize,
                    fabricModule, prevZoom, prevRotation, prevViewport, userObjects,
                    activeObject, snapshotVersion, editModeRef, seed, boxes, nextBox,
                    renders, rendersStarted >>
    /\ UNCHANGED << geomVars, saveVars, parseVars, lateVars >>

\* ------------------------------------------------------------------------
\* Initial states
\* ------------------------------------------------------------------------

NoGeom == [ok |-> FALSE, x |-> 0, y |-> 0, w |-> 0, h |-> 0]
NoPage == [pageNumber |-> 0, width |-> 0, height |-> 0, rotation |-> Num(0)]

\* The answer of POST /api/save: the status, whether the body is JSON with
\* an error message, whether it carries the PDF bytes or a preview URL, and
\* the step that failed.
NoSaveResponse == [status |-> 0, error |-> FALSE, pdf |-> FALSE, previewUrl |-> FALSE,
                   stage |-> "none"]
SaveErrorWithBytes(status, stage) ==
    [status |-> status, error |-> TRUE, pdf |-> TRUE, previewUrl |-> FALSE, stage |-> stage]
SaveError(status, stage) ==
    [status |-> status, error |-> TRUE, pdf |-> FALSE, previewUrl |-> FALSE, stage |-> stage]

GeomIdle ==
    /\ gRect = [l |-> 0, t |-> 0, w |-> 0, h |-> 0]
    /\ gA = 0 /\ gB = 0 /\ gPc = "off" /\ gOut = NoGeom

SaveIdle ==
    /\ svPc = "off" /\ svPages = << >> /\ svQueue = << >> /\ svPage = NoPage
    /\ svCount = 0 /\ svSeen = << >> /\ svDraws = << >> /\ svLog = << >>
    /\ svModified = FALSE /\ svResult = "pending" /\ svResponse = NoSaveResponse

ParseIdle ==
    /\ fnPc = "off" /\ fnName = << >> /\ fnOut = << >>
    /\ lhPc = "off" /\ lhLines = << >> /\ lhBlockHeight = Num(0) /\ lhOut = Num(0)
    /\ psPc = "off" /\ psItems = << >> /\ psLines = << >> /\ psWords = << >>
    /\ psBlocks = << >>

ColorIdle == clPc = "off" /\ clData = [k |-> "null", ch |-> << >>] /\ clOut = << >>

HookIdle ==
    /\ zoom = 100 /\ rotation = 0 /\ editMode = FALSE /\ isRendering = FALSE
    /\ canvasMade = FALSE /\ canvasSize = NoSize /\ fabricModule = FALSE
    /\ prevZoom = 100 /\ prevRotation = 0 /\ prevViewport = NoSize
    /\ userObjects = {} /\ activeObject = 0 /\ snapshotVersion = 0
    /\ editModeRef = FALSE /\ seed = [l |-> 0, t |-> 0, w |-> 0, h |-> 0]
    /\ boxes = [i \in BoxIds |-> NoBox] /\ nextBox = 1
    /\ renders = [r \in RenderIds |-> NoRender] /\ rendersStarted = 0
    /\ saved = NoSave

NoParseResponse == [status |-> 0, pages |-> << >>, error |-> ""]

PagesIdle ==
    /\ ppPc = "off" /\ ppReq = [file |-> "none", doc |-> << >>] /\ ppI = 0
    /\ ppPages = << >> /\ ppResp = NoParseResponse

MaxLoads == 3
LoadIds == 1..MaxLoads
NoLoad == [pc |-> "none", url |-> 0, cancelled |-> FALSE, taskDestroyed |-> FALSE]
NoDocState == [doc |-> 0, pageCount |-> 0, loading |-> FALSE, error |-> FALSE]

DocIdle ==
    /\ dcPc = "off" /\ dcUrl = 0 /\ dcState = NoDocState /\ dcPending = << >>
    /\ dcLoads = [l \in LoadIds |-> NoLoad] /\ dcEffect = 0 /\ dcStarted = 0
    /\ dcDestroyed = {}

ZOOM_MIN == 50
ZOOM_MAX == 300
ZOOM_STEP == 10
ZOOM_DEFAULT == 100

MaxStorePages == 2
MaxUploads == 3
MaxClicks == 5
StorePages == 1..MaxStorePages
UrlIds == 1..MaxUploads

\* The empty object {} of the rotations.
NoRotations == [p \in {} |-> 0]

\* The store as create() builds it.
InitialStore ==
    [zoom |-> ZOOM_DEFAULT, rotations |-> NoRotations, editMode |-> FALSE,
     parsedPages |-> 0, parseError |-> ""]

PageIdle ==
    /\ pgPc = "off" /\ pgStore = InitialStore /\ pgFileUrl = 0
    /\ pgUrls = [u \in UrlIds |-> "none"] /\ pgPendingFit = FALSE
    /\ pgClicks = [p \in StorePages |-> 0]

EarlyIdle == GeomIdle /\ SaveIdle /\ HookIdle /\ ParseIdle

\* Page numbers of the page canvases that can be mounted.
MaxExportPages == 3

ExportPages == 1..MaxExportPages

\* No exporter under a key of the registry.
NoExporter == [has |-> FALSE, kind |-> "null", width |-> 0]

\* The export store as created: exporters = {}.
ExportIdle ==
    /\ exporters = [p \in ExportPages |-> NoExporter]
    /\ exSnapshots = << >> /\ exCaptured = FALSE

LateIdle == ColorIdle /\ PagesIdle /\ DocIdle /\ PageIdle /\ ExportIdle

\* The page canvas mounts: the refs take the props, and the render effect
\* starts the first render.  The store holds its defaults: zoom 100, no
\* rotation, edit mode off.
Init ==
    /\ GeomIdle /\ SaveIdle /\ ParseIdle /\ LateIdle
    /\ zoom = 100 /\ rotation = 0 /\ editMode = FALSE
    /\ isRendering = TRUE
    /\ canvasMade = FALSE /\ canvasSize = NoSize /\ fabricModule = FALSE
    /\ prevZoom = zoom /\ prevRotation = rotation /\ prevViewport = NoSize
    /\ userObjects = {} /\ activeObject = 0 /\ snapshotVersion = 0
    /\ editModeRef = editMode /\ seed \in SeedRects
    /\ boxes = [i \in BoxIds |-> NoBox] /\ nextBox = 1
    /\ rendersStarted = 1
    /\ renders = [r \in RenderIds |->
                    IF r = 1 THEN [pc |-> "getPage", rot |-> rotation, zoom |-> zoom,
                                   edit |-> editMode, cancelled |-> FALSE, isNew |-> FALSE]
                    ELSE NoRender]
    /\ saved = NoSave

Next ==
    \/ RotatePage
    \/ \E z \in ZoomLevels : ZoomTo(z)
    \/ ToggleEditMode
    \/ \E i \in BoxIds : SelectTextbox(i)
    \/ DeselectTextbox
    \/ \E i \in BoxIds, target \in MoveTargets : MoveTextbox(i, target)
    \/ \E i \in BoxIds : ResizeTextbox(i)
    \/ \E r \in RenderIds : RenderGetPageDone(r)
    \/ \E r \in RenderIds : RenderTaskDone(r)
    \/ \E r \in RenderIds : RenderImportDone(r)
    \/ \E r \in RenderIds : RenderImageDone(r)
    \/ \E r \in RenderIds : RenderFails(r)
    \/ SaveDocument

Spec == Init /\ [][Next]_vars

\* One step of render r: the await it is blocked on settles, either way.
RenderStep(r) ==
    \/ RenderGetPageDone(r) \/ RenderTaskDone(r) \/ RenderImportDone(r)
    \/ RenderImageDone(r) \/ RenderFails(r)

\* The page hook of a page that is viewed, zoomed and rotated with edit mode
\* off (the store's default): no textbox is made, touched or saved.  None of
\* the actions left out reads or writes the renders or the flag.
NextRender ==
    \/ RotatePage
    \/ \E z \in ZoomLevels : ZoomTo(z)
    \/ \E r \in RenderIds : RenderStep(r)

\* The promises of pdf.js and Fabric settle: a render that is blocked on an
\* await is eventually resumed or rejected.  Nothing is assumed about the
\* user.
SpecRender == Init /\ [][NextRender]_vars /\ \A r \in RenderIds : WF_vars(RenderStep(r))

\* ------------------------------------------------------------------------
\* The geometry functions on their own
\* ------------------------------------------------------------------------

\* Left and top edges, in 1/Unit, of the rectangles drawn.
Offsets == {0, 2, 5, 16}

\* Axis-aligned rectangles inside the unit square.
GeomRects ==
    { rect \in [l : Offsets, t : Offsets, w : 1..MaxSide, h : 1..MaxSide] :
        rect.l + rect.w <= Unit /\ rect.t + rect.h <= Unit }

\* Rotate the four corners of a rectangle and take the min/max bounding box.
RotateRect(rect, steps) ==
    LET box == boundsFromPoints(RotateAll(Corners(rect.l, rect.t, rect.w, rect.h), steps))
    IN  [l |-> box.minX, t |-> box.minY, w |-> box.width, h |-> box.height]

InitGeom ==
    /\ SaveIdle /\ HookIdle /\ ParseIdle /\ LateIdle
    /\ gRect \in GeomRects /\ gA \in 0..3 /\ gB \in 0..3
    /\ gPc = "in" /\ gOut = NoGeom

\* Replay with delta (b - a) mod 4, then with delta (a - b) mod 4.
GeomRoundTrip ==
    /\ gPc = "in"
    /\ LET forth == RotateRect(gRect, (gB - gA + 4) % 4)
           back == RotateRect(forth, (gA - gB + 4) % 4)
       IN  gOut' = [ok |-> TRUE, x |-> back.l, y |-> back.t, w |-> back.w, h |-> back.h]
    /\ gPc' = "roundTrip"
    /\ UNCHANGED << gRect, gA, gB, saveVars, hookVars, parseVars, lateVars >>

\* computeMaskBoundsFromOriginal for the snapshot gRect captured at rotation
\* 90 * gA and a page payload of rotation 90 * gB.
GeomReplay ==
    /\ gPc = "in"
    /\ LET overlay == [originalBounds |-> Bounds(Num(gRect.l), Num(gRect.t), Num(gRect.w),
                                                 Num(gRect.h), 90 * gA)]
           pagePayload == [rotation |-> Num(90 * gB)]
           mask == computeMaskBoundsFromOriginal(overlay, pagePayload, PageWidth, PageHeight)
       IN  gOut' = [ok |-> mask.ok, x |-> mask.rectX, y |-> mask.rectY,
                    w |-> mask.width, h |-> mask.height]
    /\ gPc' = "replay"
    /\ UNCHANGED << gRect, gA, gB, saveVars, hookVars, parseVars, lateVars >>

NextGeom == GeomRoundTrip \/ GeomReplay

SpecGeom == InitGeom /\ [][NextGeom]_vars

\* ------------------------------------------------------------------------
\* Save route: POST /api/save
\* ------------------------------------------------------------------------

\* payload.pages as sent: the page numbers, in any order, repeats allowed.
PageNumbers == 0..(DocPages + 1)
PageNumberSeqs == UNION { [1..n -> PageNumbers] : n \in 0..MaxPages }

\* Array.prototype.sort with (a, b) => a.pageNumber - b.pageNumber (stable).
RECURSIVE InsertSorted(_, _)
InsertSorted(sorted, pn) ==
    IF sorted = << >> THEN << pn >>
    ELSE IF pn < Head(sorted) THEN << pn >> \o sorted
    ELSE << Head(sorted) >> \o InsertSorted(Tail(sorted), pn)

RECURSIVE SortPages(_)
SortPages(pages) ==
    IF pages = << >> THEN << >>
    ELSE InsertSorted(SortPages(SubSeq(pages, 1, Len(pages) - 1)), pages[Len(pages)])

\* Viewport width, height and rotation a page payload can carry: zoom 100
\* unrotated, zoom 200 at 90 degrees, no viewport at 180, zoom 100 at 270.
PageKinds ==
    { [width |-> PageWidth, height |-> PageHeight, rotation |-> Num(0)],
      [width |-> 2 * PageHeight, height |-> 2 * PageWidth, rotation |-> Num(90)],
      [width |-> 0, height |-> 0, rotation |-> Num(180)],
      [width |-> PageHeight, height |-> PageWidth, rotation |-> Num(270)] }

\* Overlays a page payload can carry, geometry in 1/Unit of the viewport:
\* one plain overlay, and that overlay with its text, one geometry value,
\* its font size or its snapshot changed.  The last sample is an overlay
\* that was moved away from column 16, where its mask still is.
PlainSample ==
    [text |-> "Hi", l |-> Num(2), t |-> Num(2), w |-> Num(4), h |-> Num(1), fs |-> Num(12),
     snap |-> NoBounds]

ExampleSnapshot(c) == Bounds(Num(2), Num(2), Num(4), Num(1), c)

OverlaySamples ==
    { PlainSample }
    \cup { [PlainSample EXCEPT !.text = text] : text \in {"", " "} }
    \cup { [PlainSample EXCEPT !.l = l] : l \in {Num(16), NaN, PosInf} }
    \cup { [PlainSample EXCEPT !.t = t] : t \in {NaN, PosInf} }
    \cup { [PlainSample EXCEPT !.w = w] : w \in {Num(0), NaN, PosInf} }
    \cup { [PlainSample EXCEPT !.h = h] : h \in {Num(-1), NaN, PosInf} }
    \cup { [PlainSample EXCEPT !.fs = fs] : fs \in {Num(0), Num(-3), NaN} }
    \cup { [PlainSample EXCEPT !.snap = ExampleSnapshot(c)] : c \in {0, 90, 180, 270} }
    \cup { [PlainSample EXCEPT !.snap = Bounds(Num(16), Num(2), Num(4), Num(1), 0)] }
    \cup { [PlainSample EXCEPT !.snap = [ExampleSnapshot(0) EXCEPT !.widthRatio = Num(0)]],
           [PlainSample EXCEPT !.snap = [ExampleSnapshot(0) EXCEPT !.leftRatio = NaN]] }

\* The overlay of the payload for a sample on a page of the given kind.
MakeOverlay(sample, kind) ==
    LET vw == IF kind.width # 0 THEN kind.width ELSE PageWidth
        vh == IF kind.height # 0 THEN kind.height ELSE PageHeight
        px(n, d) == IF IsFinite(n) THEN Num((n.v * d) \div Unit) ELSE n
    IN  [text |-> sample.text, left |-> px(sample.l, vw), top |-> px(sample.t, vh),
         width |-> px(sample.w, vw), height |-> px(sample.h, vh), fontSize |-> sample.fs,
         originalBounds |-> sample.snap]

InitSave ==
    /\ GeomIdle /\ HookIdle /\ ParseIdle /\ LateIdle
    /\ svPc = "start" /\ svPages \in PageNumberSeqs /\ svQueue = << >> /\ svPage = NoPage
    /\ svCount = 0 /\ svSeen = << >> /\ svDraws = << >> /\ svLog = << >>
    /\ svModified = FALSE /\ svResult = "pending" /\ svResponse = NoSaveResponse

\* JSON.parse, PDFDocument.load and the sort of payload.pages.
SaveLoad ==
    /\ svPc = "start"
    /\ svQueue' = SortPages(svPages)
    /\ svPc' = "pages"
    /\ UNCHANGED << svPages, svPage, svCount, svSeen, svDraws, svLog, svModified, svResult, svResponse >>
    /\ UNCHANGED << geomVars, hookVars, parseVars, lateVars >>

\* The content type is not multipart/form-data, the file is no Blob or the
\* payload is no string: status 400.
SaveReject ==
    /\ svPc = "start"
    /\ svPc' = "done"
    /\ svResult' = "error"
    /\ svResponse' = SaveError(400, "request")
    /\ UNCHANGED << svPages, svQueue, svPage, svCount, svSeen, svDraws, svLog, svModified >>
    /\ UNCHANGED << geomVars, hookVars, parseVars, lateVars >>

\* req.formData, JSON.parse or PDFDocument.load throws: the catch answers
\* with status 500.
SaveThrow ==
    /\ svPc = "start"
    /\ svPc' = "done"
    /\ svResult' = "error"
    /\ svResponse' = SaveError(500, "load")
    /\ UNCHANGED << svPages, svQueue, svPage, svCount, svSeen, svDraws, svLog, svModified >>
    /\ UNCHANGED << geomVars, hookVars, parseVars, lateVars >>

\* allPages[Math.max(0, Math.floor(pageNumber - 1))] exists.
PageIndex(pn) == Max2(0, pn - 1)
HasPage(pn) == PageIndex(pn) < DocPages

\* The next page payload names no page of the document, or carries no
\* overlays: continue / applyOverlaysToPage returns false.  The log keeps,
\* for each payload, the 1-based index of the document page it was applied
\* to (0: none).
SaveSkipPage ==
    /\ svPc = "pages" /\ svQueue # << >>
    /\ svQueue' = Tail(svQueue)
    /\ svLog' = Append(svLog, [pageNumber |-> Head(svQueue), found |-> HasPage(Head(svQueue)),
                               index |-> IF HasPage(Head(svQueue))
                                         THEN PageIndex(Head(svQueue)) + 1 ELSE 0,
                               overlays |-> 0, draws |-> 0])
    /\ UNCHANGED << svPc, svPages, svPage, svCount, svSeen, svDraws, svModified, svResult, svResponse >>
    /\ UNCHANGED << geomVars, hookVars, parseVars, lateVars >>

\* The next page payload names a page and carries n overlays:
\* applyOverlaysToPage starts on it.
SaveOpenPage(kind, n) ==
    /\ svPc = "pages" /\ svQueue # << >> /\ HasPage(Head(svQueue))
    /\ svQueue' = Tail(svQueue)
    /\ svPage' = [pageNumber |-> Head(svQueue), width |-> kind.width, height |-> kind.height,
                  rotation |-> kind.rotation]
    /\ svCount' = n
    /\ svSeen' = << >>
    /\ svDraws' = << >>
    /\ svPc' = "overlays"
    /\ UNCHANGED << svPages, svLog, svModified, svResult, svResponse >>
    /\ UNCHANGED << geomVars, hookVars, parseVars, lateVars >>

\* One iteration of the overlay loop; after the last one the page is done
\* and modified ||= changed.
SaveApplyOverlay(sample) ==
    /\ svPc = "overlays" /\ Len(svSeen) < svCount
    /\ LET overlay == MakeOverlay(sample, svPage)
           draws == overlayDraws(overlay, Len(svSeen) + 1, svPage, PageWidth, PageHeight)
           last == Len(svSeen) + 1 = svCount
           all == svDraws \o draws
       IN  /\ svSeen' = Append(svSeen, overlay)
           /\ svDraws' = all
           /\ svPc' = IF last THEN "pages" ELSE "overlays"
           /\ svLog' = IF last
                       THEN Append(svLog, [pageNumber |-> svPage.pageNumber, found |-> TRUE,
                                           index |-> PageIndex(svPage.pageNumber) + 1,
                                           overlays |-> svCount, draws |-> Len(all)])
                       ELSE svLog
           /\ svModified' = IF last THEN (svModified \/ all # << >>) ELSE svModified
    /\ UNCHANGED << svPages, svQueue, svPage, svCount, svResult, svResponse >>
    /\ UNCHANGED << geomVars, hookVars, parseVars, lateVars >>

\* One iteration of the overlay loop throws (resolveFont, hexToRgb or
\* drawText) after the mask rectangle of the overlay was drawn: the catch
\* answers with status 500.
SaveOverlayThrows(sample) ==
    /\ svPc = "overlays" /\ Len(svSeen) < svCount
    /\ LET overlay == MakeOverlay(sample, svPage)
           draws == overlayDraws(overlay, Len(svSeen) + 1, svPage, PageWidth, PageHeight)
       IN  /\ draws # << >>
           /\ svSeen' = Append(svSeen, overlay)
           /\ svDraws' = Append(svDraws, draws[1])
    /\ svPc' = "done"
    /\ svResult' = "error"
    /\ svResponse' = SaveError(500, "overlay")
    /\ UNCHANGED << svPages, svQueue, svPage, svCount, svLog, svModified >>
    /\ UNCHANGED << geomVars, hookVars, parseVars, lateVars >>

\* pdfDoc.save(), sanitizeFileName, fs.mkdir or fs.writeFile throws: the
\* catch answers with status 500.
SaveOutputThrows ==
    /\ svPc = "pages" /\ svQueue = << >>
    /\ svPc' = "done"
    /\ svResult' = "error"
    /\ svResponse' = SaveError(500, "output")
    /\ UNCHANGED << svPages, svQueue, svPage, svCount, svSeen, svDraws, svLog, svModified >>
    /\ UNCHANGED << geomVars, hookVars, parseVars, lateVars >>

\* pdfDoc.save() and the response: in preview mode the bytes are stored
\* and the JSON body names the preview URL, in download mode the body is
\* the PDF.
SaveFinish(mode) ==
    /\ svPc = "pages" /\ svQueue = << >>
    /\ svPc' = "done"
    /\ svResult' = "ok"
    /\ svResponse' = [status |-> 200, error |-> FALSE, pdf |-> mode = "download",
                      previewUrl |-> mode = "preview", stage |-> "none"]
    /\ UNCHANGED << svPages, svQueue, svPage, svCount, svSeen, svDraws, svLog, svModified >>
    /\ UNCHANGED << geomVars, hookVars, parseVars, lateVars >>

NextSave ==
    \/ SaveLoad
    \/ SaveReject
    \/ SaveThrow
    \/ SaveSkipPage
    \/ \E kind \in PageKinds, n \in 1..MaxOverlays : SaveOpenPage(kind, n)
    \/ \E sample \in OverlaySamples : SaveApplyOverlay(sample)
    \/ \E sample \in OverlaySamples : SaveOverlayThrows(sample)
    \/ SaveOutputThrows
    \/ \E mode \in {"preview", "download"} : SaveFinish(mode)

SpecSave == InitSave /\ [][NextSave]_vars

\* ------------------------------------------------------------------------
\* Properties of the geometry functions (SpecGeom)
\* ------------------------------------------------------------------------

\* C2. Rotation round trip: rotating the corners of a rectangle of the unit
\* square by (b - a) mod 4 and taking the bounding box, then rotating that
\* box by (a - b) mod 4 and taking the bounding box, gives back the
\* rectangle's minX, minY, width and height, for all a, b in 0..3.
C2_RotationRoundTrip ==
    gPc = "roundTrip" =>
        gOut = [ok |-> TRUE, x |-> gRect.l, y |-> gRect.t, w |-> gRect.w, h |-> gRect.h]

C2_Witness ==
    /\ gPc = "roundTrip" /\ gA = 1 /\ gB = 2
    /\ gRect.w # gRect.h /\ gRect.l # gRect.t
    /\ gOut.ok

\* The bounding box, in 1/Unit, of a rectangle of the unit square turned by
\* delta quarter turns, worked out by hand from (x, y) -> (1 - y, x).
TurnedBox(rect, delta) ==
    CASE delta = 1 -> [l |-> Unit - (rect.t + rect.h), t |-> rect.l, w |-> rect.h, h |-> rect.w]
      [] delta = 2 -> [l |-> Unit - (rect.l + rect.w), t |-> Unit - (rect.t + rect.h),
                       w |-> rect.w, h |-> rect.h]
      [] delta = 3 -> [l |-> rect.t, t |-> Unit - (rect.l + rect.w), w |-> rect.h, h |-> rect.w]
      [] OTHER -> rect

\* C3. Snapshot replay: the mask of a snapshot captured at rotation c on a
\* page saved at rotation r is the bounding box of the snapshot's corners
\* turned by (r - c + 4) mod 4 quarter turns, scaled by the page's intrinsic
\* width and height (rectY counted from the bottom).  Ratios 0.1, 0.1, 0.2,
\* 0.05 captured at 0 and replayed at 90 on a 600 x 800 page give left 510,
\* top 80, width 30, height 160.
C3_SnapshotReplayFormula ==
    gPc = "replay" =>
        LET box == TurnedBox(gRect, (gB - gA + 4) % 4)
            left == (box.l * PageWidth) \div Unit
            top == (box.t * PageHeight) \div Unit
            width == (box.w * PageWidth) \div Unit
            height == (box.h * PageHeight) \div Unit
        IN  /\ gOut = [ok |-> TRUE, x |-> left, y |-> PageHeight - (top + height),
                       w |-> width, h |-> height]
            /\ (gRect = [l |-> 2, t |-> 2, w |-> 4, h |-> 1] /\ gA = 0 /\ gB = 1) =>
                   /\ gOut.x = 510 /\ PageHeight - (gOut.y + gOut.h) = 80
                   /\ gOut.w = 30 /\ gOut.h = 160

C3_Witness ==
    /\ gPc = "replay" /\ gRect = [l |-> 2, t |-> 2, w |-> 4, h |-> 1]
    /\ gA = 0 /\ gB = 1
    /\ gOut.ok /\ gOut.x = 510 /\ gOut.h = 160

\* ------------------------------------------------------------------------
\* Properties of the save route (SpecSave)
\* ------------------------------------------------------------------------

\* The drawing calls on the current page that belong to overlay number k.
DrawsOf(k) == { d \in 1..Len(svDraws) : svDraws[d].ov = k }
OpsOf(k) == { svDraws[d].op : d \in DrawsOf(k) }

\* Overlay k is the one whose drawing threw and failed the save.
FailedOverlay(k) == svResponse.stage = "overlay" /\ k = Len(svSeen)

\* An overlay with text and a finite, positive current rectangle.
HasPlainGeometry(ov) ==
    /\ ov.text = "Hi"
    /\ IsFinite(ov.left) /\ IsFinite(ov.top) /\ IsFinite(ov.width) /\ IsFinite(ov.height)
    /\ ov.left.v >= 0 /\ ov.top.v >= 0 /\ ov.width.v > 0 /\ ov.height.v > 0

ZeroWidthSnapshot(ov) == ov.originalBounds.has /\ ov.originalBounds.widthRatio = Num(0)

\* C8 as stated. An overlay whose snapshot has widthRatio = 0 gets neither a
\* mask rectangle nor a text draw, whatever its current geometry.
C8_ZeroWidthSnapshotSkipped ==
    \A k \in 1..Len(svSeen) : ZeroWidthSnapshot(svSeen[k]) => DrawsOf(k) = {}

\* C8, amended. An overlay whose snapshot has widthRatio = 0 and whose
\* current geometry is valid is drawn: the snapshot gives no mask, so the
\* mask rectangle is the page-space rectangle of the current geometry, and
\* the text is drawn over it.
C8_ZeroWidthSnapshotFallsBack ==
    \A k \in 1..Len(svSeen) :
        (ZeroWidthSnapshot(svSeen[k]) /\ HasPlainGeometry(svSeen[k])) =>
            LET bounds == deriveBounds(svSeen[k], svPage, PageWidth, PageHeight) IN
            /\ bounds.ok
            /\ OpsOf(k) = IF FailedOverlay(k) THEN {"drawRectangle"}
                          ELSE {"drawRectangle", "drawText"}
            /\ \A d \in DrawsOf(k) :
                  svDraws[d].op = "drawRectangle" =>
                      /\ svDraws[d].x = bounds.rectX /\ svDraws[d].y2 = 2 * bounds.rectY
                      /\ svDraws[d].width = bounds.width /\ svDraws[d].height = bounds.height

C8_Witness ==
    \E k \in 1..Len(svSeen) :
        /\ ZeroWidthSnapshot(svSeen[k]) /\ HasPlainGeometry(svSeen[k])
        /\ OpsOf(k) = {"drawRectangle", "drawText"}

\* The overlays C9 speaks of: blank text, or a current width or height whose
\* ratio to the viewport is <= 0.
C9Skipped(ov) ==
    \/ ov.text \in {"", " "}
    \/ (IsFinite(ov.width) /\ ov.width.v <= 0)
    \/ (IsFinite(ov.height) /\ ov.height.v <= 0)

\* C9. Skip and continue: an overlay with blank text or with a width or
\* height ratio <= 0 adds no drawRectangle and no drawText; the overlays
\* after it on the page are still processed (a plain one is drawn), every
\* page payload is handled, and a skipped overlay never makes the save
\* fail: the save fails before any overlay was looked at, while an overlay
\* that is not skipped is drawn, or while the output is produced.
C9_SkipAndContinue ==
    /\ \A k \in 1..Len(svSeen) : C9Skipped(svSeen[k]) => DrawsOf(k) = {}
    /\ \A k, j \in 1..Len(svSeen) :
          (k < j /\ C9Skipped(svSeen[k]) /\ HasPlainGeometry(svSeen[j])
              /\ ~FailedOverlay(j)) =>
              OpsOf(j) = {"drawRectangle", "drawText"}
    /\ (svPc # "overlays" /\ svSeen # << >> /\ svResponse.stage # "overlay") =>
          Len(svSeen) = svCount
    /\ (svResult = "error" /\ svSeen # << >>) =>
          \/ svResponse.stage = "output"
          \/ svResponse.stage = "overlay" /\ ~C9Skipped(svSeen[Len(svSeen)])
    /\ (svPc = "done" /\ svResult = "ok") => Len(svLog) = Len(svPages)

C9_Witness ==
    /\ svPc = "done" /\ svResult = "ok" /\ Len(svLog) = 2
    /\ Len(svSeen) = 2 /\ svSeen[1].text = " " /\ DrawsOf(1) = {}
    /\ OpsOf(2) = {"drawRectangle", "drawText"}

\* C10 as stated. An overlay with a non-finite left, top, width or height
\* is skipped: no mask rectangle and no text are drawn for it.
C10_NonFiniteGeometrySkipped ==
    \A k \in 1..Len(svSeen) :
        (\E value \in {svSeen[k].left, svSeen[k].top, svSeen[k].width, svSeen[k].height} :
              ~IsFinite(value))
            => DrawsOf(k) = {}

\* ------------------------------------------------------------------------
\* Properties of the page hook (Spec)
\* ------------------------------------------------------------------------

\* A step in which textbox i gets its first snapshot.
CaptureStep(i) == ~originalBoundsOf(boxes[i]).has /\ originalBoundsOf(boxes'[i]).has

\* A step in which the user moves or resizes textbox i.
UserEditStep(i) == (\E target \in MoveTargets : MoveTextbox(i, target)) \/ ResizeTextbox(i)

\* The bounding rectangle of b as ratios, in 1/Unit, of the viewport vp.
RatiosIn(b, vp) ==
    LET rect == BoundingRect(b)
    IN  [l |-> (rect.left * Unit) \div vp.width, t |-> (rect.top * Unit) \div vp.height,
         w |-> (rect.width * Unit) \div vp.width, h |-> (rect.height * Unit) \div vp.height]

\* The four ratios of a snapshot.
RatiosOf(bounds) ==
    [l |-> bounds.leftRatio.v, t |-> bounds.topRatio.v,
     w |-> bounds.widthRatio.v, h |-> bounds.heightRatio.v]

\* C1 as stated. A saved overlay that has a snapshot and whose geometry was
\* not edited since the capture (only page rotations were replayed onto it)
\* gets a mask rectangle from the snapshot equal to the page-space rectangle
\* deriveBounds gets from its current geometry.
C1_MaskEqualsCurrentBounds ==
    saved.has =>
        \A i \in BoxIds :
            (saved.plan[i].on /\ saved.plan[i].pristine /\ saved.plan[i].snapshot.has
                /\ saved.plan[i].bounds.ok /\ saved.plan[i].mask.ok)
              => RectOf(saved.plan[i].mask) = RectOf(saved.plan[i].bounds)

\* C4. Once a textbox has a snapshot, no step changes any of its five
\* fields: zoom changes, page rotations, completed and cancelled renders,
\* edit-mode toggles, selections and deselections only read it.
C4_SnapshotNeverOverwritten ==
    [][\A i \in BoxIds :
          originalBoundsOf(boxes[i]).has =>
              originalBoundsOf(boxes'[i]) = originalBoundsOf(boxes[i])]_vars

C4_Witness ==
    \E i \in BoxIds :
        /\ boxes[i].onCanvas /\ originalBoundsOf(boxes[i]).has
        /\ originalBoundsOf(boxes[i]).captureRotation = 0
        /\ prevRotation = 90 /\ prevZoom = 200 /\ ~isRendering

\* C5 as stated. The first snapshot of a textbox carries the rotation of the
\* viewport in which its rectangle is measured: captureRotation is one of 0,
\* 90, 180, 270 and equals the rotation of the page as displayed.
C5_CaptureRotationMatchesViewport ==
    [][\A i \in BoxIds :
          CaptureStep(i) =>
              /\ originalBoundsOf(boxes'[i]).captureRotation \in {0, 90, 180, 270}
              /\ originalBoundsOf(boxes'[i]).captureRotation = prevRotation]_vars

\* C6 as stated. The ratios of a first snapshot are those of the measured
\* rectangle turned back by the capture rotation.
C6_RatiosStoredUnrotated ==
    [][\A i \in BoxIds :
          CaptureStep(i) =>
              LET captured == originalBoundsOf(boxes'[i])
                  captureSteps == captured.captureRotation \div 90
              IN  RatiosOf(captured) =
                      RotateRect(RatiosIn(boxes[i], prevViewport), (4 - captureSteps) % 4)]_vars

\* C6, amended. The ratios of a first snapshot are those of the rectangle as
\* measured in the displayed viewport, not turned back; the capture rotation
\* is stored next to them.
C6_RatiosStoredAsMeasured ==
    [][\A i \in BoxIds :
          CaptureStep(i) =>
              RatiosOf(originalBoundsOf(boxes'[i])) = RatiosIn(boxes[i], prevViewport)]_vars

C6_Witness ==
    \E i \in BoxIds :
        /\ originalBoundsOf(boxes[i]).has
        /\ originalBoundsOf(boxes[i]).captureRotation = 90
        /\ prevRotation = 90 /\ boxes[i].onCanvas /\ boxes[i].pristine
        /\ RatiosOf(originalBoundsOf(boxes[i])) = RatiosIn(boxes[i], prevViewport)

\* C7 as stated. After a user move or resize of a textbox that has a
\* snapshot, the snapshot holds the textbox's new rectangle.
C7_SnapshotRecapturedAfterEdit ==
    [][\A i \in BoxIds :
          (UserEditStep(i) /\ originalBoundsOf(boxes[i]).has) =>
              RatiosOf(originalBoundsOf(boxes'[i])) = RatiosIn(boxes'[i], prevViewport)]_vars

\* C7, amended. A user move or resize of a textbox that has a snapshot
\* changes the textbox's rectangle and leaves the snapshot as it was.
C7_SnapshotKeptAfterEdit ==
    [][\A i \in BoxIds :
          (UserEditStep(i) /\ originalBoundsOf(boxes[i]).has) =>
              /\ originalBoundsOf(boxes'[i]) = originalBoundsOf(boxes[i])
              /\ BoundingRect(boxes'[i]) # BoundingRect(boxes[i])]_vars

C7_Witness ==
    \E i \in BoxIds :
        /\ boxes[i].onCanvas /\ activeObject = i /\ ~boxes[i].pristine
        /\ originalBoundsOf(boxes[i]).has
        /\ prevZoom = 100 /\ prevRotation = 0 /\ ~isRendering
        /\ RatiosOf(originalBoundsOf(boxes[i])) # RatiosIn(boxes[i], prevViewport)

\* ------------------------------------------------------------------------
\* Properties of the drawing order of the save route (SpecSave)
\* ------------------------------------------------------------------------

\* C11. Every overlay that is not skipped adds exactly two drawing calls to
\* its page: one opaque white drawRectangle and, directly after it, one
\* drawText.  No drawing call of another overlay lies between the two, and
\* the pairs follow the order of the overlays.  An overlay with text and a
\* finite, positive rectangle is never skipped.  (An overlay whose drawing
\* throws after the rectangle fails the whole save.)
C11_MaskThenText ==
    /\ \A k \in 1..Len(svSeen) :
          /\ HasPlainGeometry(svSeen[k]) => DrawsOf(k) # {}
          /\ FailedOverlay(k) =>
                \E d \in 1..Len(svDraws) :
                    DrawsOf(k) = {d} /\ svDraws[d].op = "drawRectangle"
          /\ (DrawsOf(k) # {} /\ ~FailedOverlay(k)) =>
                \E d \in 1..(Len(svDraws) - 1) :
                    /\ DrawsOf(k) = {d, d + 1}
                    /\ svDraws[d].op = "drawRectangle"
                    /\ svDraws[d].color = "rgb(1,1,1)" /\ svDraws[d].opacity = 1
                    /\ svDraws[d + 1].op = "drawText"
    /\ \A d, e \in 1..Len(svDraws) : svDraws[d].ov < svDraws[e].ov => d < e

C11_Witness ==
    /\ Len(svSeen) = 2 /\ Len(svDraws) = 4
    /\ svSeen[1] # svSeen[2]
    /\ DrawsOf(1) = {1, 2} /\ DrawsOf(2) = {3, 4}
    /\ svDraws[3].op = "drawRectangle" /\ svDraws[4].op = "drawText"

\* The area a drawing call paints, in half points: a rectangle is its own
\* area; a text is the box of its first line, from the baseline up by the
\* font size and maxWidth wide.
DrawBox(r) ==
    IF r.op = "drawRectangle"
    THEN [x1 |-> 2 * r.x, x2 |-> 2 * (r.x + r.width), y1 |-> r.y2, y2 |-> r.y2 + 2 * r.height]
    ELSE [x1 |-> 2 * r.x, x2 |-> 2 * (r.x + r.width), y1 |-> r.y2, y2 |-> r.y2 + r.size2]

\* The overlays of the page drawn in the order f, a permutation of their
\* indices, from position i on.
RECURSIVE DrawsInOrder(_, _)
DrawsInOrder(f, i) ==
    IF i > Len(svSeen) THEN << >>
    ELSE overlayDraws(svSeen[f[i]], f[i], svPage, PageWidth, PageHeight) \o DrawsInOrder(f, i + 1)

\* What the page shows at the point (px, py), in quarter points, after the
\* drawing calls were made in order: the kind of the last call that painted
\* the point.
ContentAt(draws, px, py) ==
    LET hits == { d \in 1..Len(draws) :
                     LET b == DrawBox(draws[d]) IN
                     /\ 2 * b.x1 < px /\ px < 2 * b.x2
                     /\ 2 * b.y1 < py /\ py < 2 * b.y2 }
    IN  IF hits = {} THEN "untouched"
        ELSE IF draws[SetMax(hits)].op = "drawRectangle" THEN "mask" ELSE "text"

\* One point inside every cell of the grid the edges cut the axis into.
CellPoints(edges) ==
    { a + b : a, b \in { e \in edges : TRUE } } \ { a + a : a \in edges }

\* The points that tell two page contents apart: drawing calls paint
\* axis-parallel boxes, so the content is constant between their edges.
ProbeXs == CellPoints(UNION { {DrawBox(svDraws[d]).x1, DrawBox(svDraws[d]).x2} : d \in 1..Len(svDraws) })
ProbeYs == CellPoints(UNION { {DrawBox(svDraws[d]).y1, DrawBox(svDraws[d]).y2} : d \in 1..Len(svDraws) })

OverlayOrders ==
    { f \in [1..Len(svSeen) -> 1..Len(svSeen)] : \A i, j \in 1..Len(svSeen) : f[i] = f[j] => i = j }

\* C12 as stated. Once a page is done, drawing its overlays in any other
\* order gives the same page content: every point is covered by a mask, by
\* a text or untouched exactly as in the order of the payload.
C12_OverlayOrderIrrelevant ==
    (svPc # "overlays" /\ svSeen # << >> /\ svResponse.stage # "overlay") =>
        \A f \in OverlayOrders :
            \A px \in ProbeXs, py \in ProbeYs :
                ContentAt(DrawsInOrder(f, 1), px, py) = ContentAt(svDraws, px, py)

\* ------------------------------------------------------------------------
\* Properties of the y-flip of the save route (SpecSave)
\* ------------------------------------------------------------------------

\* The page-space top and height of an overlay's current rectangle: its
\* viewport ratios turned back by the page rotation and scaled to the page.
PageSpaceBox(ov) ==
    LET vw == IF svPage.width # 0 THEN svPage.width ELSE PageWidth
        vh == IF svPage.height # 0 THEN svPage.height ELSE PageHeight
        steps == normalizeRotationSteps(svPage.rotation)
        n == boundsFromPoints(RotateAll(Corners(clamp01(RatioOver(ov.left, vw)),
                                                clamp01(RatioOver(ov.top, vh)),
                                                clamp01(RatioOver(ov.width, vw)),
                                                clamp01(RatioOver(ov.height, vh))),
                                        (4 - steps) % 4))
    IN  [top |-> (n.minY * PageHeight) \div Unit, height |-> (n.height * PageHeight) \div Unit,
         vh |-> vh]

\* The drawing call of overlay k with the given operation.
DrawOf(k, op) == svDraws[CHOOSE d \in DrawsOf(k) : svDraws[d].op = op]

\* The mask rectangle of a drawn overlay without a snapshot is its current
\* rectangle, flipped: y = pageHeight - (top + height).
RectFlipped(k) ==
    LET box == PageSpaceBox(svSeen[k]) IN
    ~svSeen[k].originalBounds.has =>
        /\ DrawOf(k, "drawRectangle").y2 = 2 * (PageHeight - (box.top + box.height))
        /\ DrawOf(k, "drawRectangle").height = box.height

UpperLetters == << "A", "B", "C", "D", "E", "F", "G", "H", "I", "J", "K", "L", "M", "N", "O", "P", "Q", "R", "S", "T", "U", "V", "W", "X", "Y", "Z" >>
LowerLetters == << "a", "b", "c", "d", "e", "f", "g", "h", "i", "j", "k", "l", "m", "n", "o", "p", "q", "r", "s", "t", "u", "v", "w", "x", "y", "z" >>

IsUpperLetter(c) == \E i \in 1..Len(UpperLetters) : UpperLetters[i] = c

\* String.prototype.toLowerCase (ASCII letters).
toLowerCase(str) ==
    [i \in 1..Len(str) |->
        IF IsUpperLetter(str[i])
        THEN LowerLetters[CHOOSE j \in 1..Len(UpperLetters) : UpperLetters[j] = str[i]]
        ELSE str[i]]

\* String.prototype.trim (blanks).
RECURSIVE trim(_)
trim(str) ==
    IF str = << >> THEN str
    ELSE IF Head(str) = " " THEN trim(Tail(str))
    ELSE IF str[Len(str)] = " " THEN trim(SubSeq(str, 1, Len(str) - 1))
    ELSE str

\* key === str in place of str.includes(key).
includesWhole(str, key) == str = key

\* String.prototype.includes: key occurs somewhere in str.
includes(str, key) ==
    \E i \in 0..(Len(str) - Len(key)) : SubSeq(str, i + 1, i + Len(key)) = key

\* The name kept as reported, in place of fontName.replace(/^[A-Z]{6}\+/, "").
keepSubsetPrefix(fontName) == fontName

\* fontName.replace(/^[A-Z]{6}\+/, "").
stripSubsetPrefix(fontName) ==
    IF /\ Len(fontName) >= 7
       /\ \A i \in 1..6 : IsUpperLetter(fontName[i])
       /\ fontName[7] = "+"
    THEN SubSeq(fontName, 8, Len(fontName))
    ELSE fontName

\* fontName.split(/[-,]/)[0].
firstFontPart(fontName) ==
    LET seps == { i \in 1..Len(fontName) : fontName[i] \in {"-", ","} }
    IN  IF seps = {} THEN fontName ELSE SubSeq(fontName, 1, SetMin(seps) - 1)

SansSerif == << "s", "a", "n", "s", "-", "s", "e", "r", "i", "f" >>

\* fontMap, in the order of Object.entries.
fontMap ==
    << [key |-> << "T", "i", "m", "e", "s", "N", "e", "w", "R", "o", "m", "a", "n" >>,
        value |-> << "T", "i", "m", "e", "s", " ", "N", "e", "w", " ", "R", "o", "m", "a", "n" >>],
       [key |-> << "T", "i", "m", "e", "s", "N", "e", "w", "R", "o", "m", "a", "n", "P", "S" >>,
        value |-> << "T", "i", "m", "e", "s", " ", "N", "e", "w", " ", "R", "o", "m", "a", "n" >>],
       [key |-> << "A", "r", "i", "a", "l" >>,
        value |-> << "A", "r", "i", "a", "l" >>],
       [key |-> << "A", "r", "i", "a", "l", "M", "T" >>,
        value |-> << "A", "r", "i", "a", "l" >>],
       [key |-> << "H", "e", "l", "v", "e", "t", "i", "c", "a" >>,
        value |-> << "H", "e", "l", "v", "e", "t", "i", "c", "a" >>],
       [key |-> << "C", "o", "u", "r", "i", "e", "r" >>,
        value |-> << "C", "o", "u", "r", "i", "e", "r", " ", "N", "e", "w" >>],
       [key |-> << "C", "o", "u", "r", "i", "e", "r", "N", "e", "w" >>,
        value |-> << "C", "o", "u", "r", "i", "e", "r", " ", "N", "e", "w" >>],
       [key |-> << "C", "a", "l", "i", "b", "r", "i" >>,
        value |-> << "C", "a", "l", "i", "b", "r", "i" >>],
       [key |-> << "V", "e", "r", "d", "a", "n", "a" >>,
        value |-> << "V", "e", "r", "d", "a", "n", "a" >>],
       [key |-> << "G", "e", "o", "r", "g", "i", "a" >>,
        value |-> << "G", "e", "o", "r", "g", "i", "a" >>],
       [key |-> << "P", "a", "l", "a", "t", "i", "n", "o" >>,
        value |-> << "P", "a", "l", "a", "t", "i", "n", "o" >>] >>

\* The words of the weight test /bold|heavy|black|demibold|semibold/i.
BoldWords == { << "b", "o", "l", "d" >>,
               << "h", "e", "a", "v", "y" >>,
               << "b", "l", "a", "c", "k" >>,
               << "d", "e", "m", "i", "b", "o", "l", "d" >>,
               << "s", "e", "m", "i", "b", "o", "l", "d" >> }

\* The font attributes onChar extracts from the name the font reports
\* (an empty name stands for a font without name: "sans-serif").
onCharFont(reported) ==
    LET fontName == stripSubsetPrefix(IF reported = << >> THEN SansSerif ELSE reported)
        part == trim(firstFontPart(fontName))
        fontFamily == IF part = << >> THEN SansSerif ELSE part
        hits == { i \in 1..Len(fontMap) :
                     includes(toLowerCase(fontFamily), toLowerCase(fontMap[i].key)) }
        isBold == \E word \in BoldWords : includes(toLowerCase(fontName), word)
    IN  [fontFamily |-> IF hits = {} THEN fontFamily ELSE fontMap[SetMin(hits)].value,
         fontWeight |-> IF isBold THEN "bold" ELSE "normal"]

\* Font names a PDF reports: a subset prefix or something like one, a base
\* name, and a style suffix.
FontPrefixes == { << >>, << "B", "A", "A", "A", "A", "A", "+" >>, << "B", "O", "L", "D", "A", "B", "+" >>, << "A", "B", "C", "D", "E", "+" >>, << "a", "b", "c", "d", "e", "f", "+" >> }
FontBases ==
    { << >>,
      << "A", "r", "i", "a", "l", "M", "T" >>,
      << "A", "r", "i", "a", "l" >>,
      << "a", "r", "i", "a", "l" >>,
      << " ", "A", "r", "i", "a", "l", " " >>,
      << "T", "i", "m", "e", "s", "N", "e", "w", "R", "o", "m", "a", "n", "P", "S" >>,
      << "T", "i", "m", "e", "s", "N", "e", "w", "R", "o", "m", "a", "n" >>,
      << "H", "e", "l", "v", "e", "t", "i", "c", "a" >>,
      << "H", "e", "l", "v", "e", "t", "i", "c", "a", "N", "e", "u", "e" >>,
      << "C", "o", "u", "r", "i", "e", "r" >>,
      << "C", "o", "u", "r", "i", "e", "r", "N", "e", "w" >>,
      << "C", "a", "l", "i", "b", "r", "i" >>,
      << "V", "e", "r", "d", "a", "n", "a" >>,
      << "G", "e", "o", "r", "g", "i", "a" >>,
      << "P", "a", "l", "a", "t", "i", "n", "o" >>,
      << "R", "o", "b", "o", "t", "o" >>,
      << "B", "l", "a", "c", "k", "C", "h", "a", "n", "c", "e", "r", "y" >> }
FontSuffixes == { << >>, << "-", "B", "o", "l", "d" >>, << ",", "I", "t", "a", "l", "i", "c" >>, << "-", "B", "o", "l", "d", "I", "t", "a", "l", "i", "c" >>, << "M", "T", "-", "H", "e", "a", "v", "y" >> }
FontNames == { p \o b \o x : p \in FontPrefixes, b \in FontBases, x \in FontSuffixes }

InitFont ==
    /\ GeomIdle /\ SaveIdle /\ HookIdle /\ LateIdle
    /\ lhPc = "off" /\ lhLines = << >> /\ lhBlockHeight = Num(0) /\ lhOut = Num(0)
    /\ psPc = "off" /\ psItems = << >> /\ psLines = << >> /\ psWords = << >>
    /\ psBlocks = << >>
    /\ fnPc = "in" /\ fnName \in FontNames /\ fnOut = << >>

\* onChar resolves the font of one character.
FontResolve ==
    /\ fnPc = "in"
    /\ fnOut' = << onCharFont(fnName) >>
    /\ fnPc' = "out"
    /\ UNCHANGED << fnName, lhPc, lhLines, lhBlockHeight, lhOut,
                    psPc, psItems, psLines, psWords, psBlocks >>
    /\ UNCHANGED << geomVars, saveVars, hookVars, lateVars >>

NextFont == FontResolve

SpecFont == InitFont /\ [][NextFont]_vars

\* The part of a reported name the family is taken from: the name without
\* subset prefix, up to the first '-' or ',', trimmed.
FamilySegment(reported) == trim(firstFontPart(stripSubsetPrefix(reported)))

\* Alias i of the table occurs in the lower-cased segment.
AliasOccursIn(segment, i) ==
    \E pre, post \in 0..Len(segment) :
        /\ pre + Len(fontMap[i].key) + post = Len(segment)
        /\ \A j \in 1..Len(fontMap[i].key) :
              toLowerCase(segment)[pre + j] = toLowerCase(fontMap[i].key)[j]

HasSubsetPrefix(reported) ==
    /\ Len(reported) >= 7
    /\ \A i \in 1..6 : IsUpperLetter(reported[i])
    /\ reported[7] = "+"

\* One of bold, heavy, black, demibold, semibold occurs in the reported
\* name at or after position from + 1, letter case ignored.
WeightWordFrom(reported, from) ==
    \E word \in { << "b", "o", "l", "d" >>, << "h", "e", "a", "v", "y" >>,
                  << "b", "l", "a", "c", "k" >>,
                  << "d", "e", "m", "i", "b", "o", "l", "d" >>,
                  << "s", "e", "m", "i", "b", "o", "l", "d" >> } :
        \E i \in from..(Len(reported) - Len(word)) :
            \A j \in 1..Len(word) : toLowerCase(reported)[i + j] = word[j]

\* C21 as stated. The weight of a character is 'bold' iff the font name as
\* reported, subset prefix included, contains one of bold, heavy, black,
\* demibold, semibold, letter case ignored; otherwise it is 'normal'.
C21_WeightFromUnstrippedName ==
    fnPc = "out" =>
        fnOut[1].fontWeight =
            IF WeightWordFrom(fnName, 0) THEN "bold" ELSE "normal"

\* C21, amended. The weight of a character is 'bold' iff the font name
\* without its leading subset prefix (six upper-case letters and '+'), but
\* with every '-' or ',' separated part, contains one of bold, heavy,
\* black, demibold, semibold, letter case ignored; otherwise 'normal'.
C21_WeightFromStrippedName ==
    fnPc = "out" =>
        fnOut[1].fontWeight =
            IF WeightWordFrom(fnName, IF HasSubsetPrefix(fnName) THEN 7 ELSE 0)
            THEN "bold" ELSE "normal"

\* A subset prefix that spells a weight word, before a regular font.
C21_Witness ==
    /\ fnPc = "out"
    /\ fnName = << "B", "O", "L", "D", "A", "B", "+", "A", "r", "i", "a", "l" >>
    /\ fnOut[1].fontWeight = "normal"

\* ------------------------------------------------------------------------
\* Parse route: deriveParagraphLineHeight
\* ------------------------------------------------------------------------
\* Lengths are counted in 1/PxUnit of a pixel, line-height ratios in
\* 1/LhUnit; quotients are cut to that resolution but never to zero.

PxUnit == 2
LhUnit == 100

DEFAULT_LINE_HEIGHT == (12 * LhUnit) \div 10
MIN_LINE_HEIGHT == 1 * LhUnit
MAX_LINE_HEIGHT == 3 * LhUnit

Abs(n) == IF n < 0 THEN -n ELSE n

\* n / d for integers, d # 0: cut towards zero, a non-zero quotient kept
\* non-zero.
Quot(n, d) ==
    LET q == Abs(n) \div Abs(d)
        m == IF q = 0 /\ n # 0 THEN 1 ELSE q
    IN  IF (n < 0) # (d < 0) THEN -m ELSE m

\* a + b
XAdd(a, b) ==
    IF a.k = "nan" \/ b.k = "nan" THEN NaN
    ELSE IF a.k = "num" /\ b.k = "num" THEN Num(a.v + b.v)
    ELSE IF a.k = "num" THEN b
    ELSE IF b.k = "num" THEN a
    ELSE IF a.k = b.k THEN a
    ELSE NaN

\* -a
XNeg(a) ==
    IF a.k = "num" THEN Num(-a.v)
    ELSE IF a.k = "inf" THEN NegInf
    ELSE IF a.k = "ninf" THEN PosInf
    ELSE NaN

\* a - b
XSub(a, b) == XAdd(a, XNeg(b))

\* a > 0
XPositive(a) == a.k = "inf" \/ (a.k = "num" /\ a.v > 0)

\* a < 0
XNegative(a) == a.k = "ninf" \/ (a.k = "num" /\ a.v < 0)

\* a / b, the quotient counted in 1/scale (scale 1 keeps the unit of a).
XDiv(a, b, scale) ==
    IF a.k = "nan" \/ b.k = "nan" THEN NaN
    ELSE IF a.k = "num" /\ b.k = "num"
    THEN IF b.v # 0 THEN Num(Quot(a.v * scale, b.v))
         ELSE IF a.v > 0 THEN PosInf
         ELSE IF a.v < 0 THEN NegInf
         ELSE NaN
    ELSE IF a.k = "num" THEN Num(0)
    ELSE IF b.k # "num" THEN NaN
    ELSE IF XNegative(a) # XNegative(b) THEN NegInf ELSE PosInf

\* Math.max(a, b)
XMax(a, b) ==
    IF a.k = "nan" \/ b.k = "nan" THEN NaN
    ELSE IF XPositive(XSub(a, b)) THEN a ELSE b

\* Math.min(a, b)
XMin(a, b) ==
    IF a.k = "nan" \/ b.k = "nan" THEN NaN
    ELSE IF XPositive(XSub(a, b)) THEN b ELSE a

\* value || fallback
OrElse(value, fallback) ==
    IF value.k = "nan" \/ (value.k = "num" /\ value.v = 0) THEN fallback ELSE value

RECURSIVE XSum(_)
XSum(values) == IF values = << >> THEN Num(0) ELSE XAdd(Head(values), XSum(Tail(values)))

clampLineHeight(value) ==
    XMin(XMax(value, Num(MIN_LINE_HEIGHT)), Num(MAX_LINE_HEIGHT))

\* The value itself in place of Number.isFinite(value) ? value : fallback.
finiteOrSelf(value, fallback) == value

\* Number.isFinite(value) ? value : fallback
finiteOr(value, fallback) == IF IsFinite(value) THEN value ELSE fallback

\* The orders [...paragraphLines].sort((a, b) => a.y - b.y) can give, as
\* sequences of indices: the stable ascending order when every difference
\* is a number, any order when some y is NaN or infinite and the comparator
\* is inconsistent.
SortedByY(paragraphLines) ==
    LET n == Len(paragraphLines)
        perms == { f \in [1..n -> 1..n] : \A i, j \in 1..n : f[i] = f[j] => i = j }
    IN  IF \A i \in 1..n : IsFinite(paragraphLines[i].y)
        THEN { f \in perms :
                  \A i, j \in 1..n :
                      i < j => \/ paragraphLines[f[i]].y.v < paragraphLines[f[j]].y.v
                               \/ /\ paragraphLines[f[i]].y.v = paragraphLines[f[j]].y.v
                                  /\ f[i] < f[j] }
        ELSE perms

\* deriveParagraphLineHeight; order is the outcome of the sort by y.
deriveParagraphLineHeight(paragraphLines, blockHeight, order) ==
    IF Len(paragraphLines) = 0 THEN Num(DEFAULT_LINE_HEIGHT)
    ELSE
    LET fontSize == OrElse(paragraphLines[1].fontSize, Num(1 * PxUnit)) IN
    IF Len(paragraphLines) = 1
    THEN LET single == paragraphLines[1]
             candidates == SelectSeq(<< single.lineHeight,
                                     XDiv(single.height, fontSize, LhUnit),
                                     XDiv(blockHeight, fontSize, LhUnit) >>,
                                     LAMBDA val : IsFinite(val) /\ val.v > 0)
             estimate == IF Len(candidates) # 0
                         THEN XDiv(XSum(candidates), Num(Len(candidates)), 1)
                         ELSE Num(DEFAULT_LINE_HEIGHT)
         IN  clampLineHeight(estimate)
    ELSE
    LET n == Len(paragraphLines)
        deltas == [idx \in 1..(n - 1) |->
                      XSub(paragraphLines[order[idx + 1]].y, paragraphLines[order[idx]].y)]
        verticalSteps == SelectSeq(deltas, XPositive)
        avgStep == IF Len(verticalSteps) # 0
                   THEN XDiv(XSum(verticalSteps), Num(Len(verticalSteps)), 1)
                   ELSE XDiv(blockHeight, Num(Max2(n - 1, 1)), 1)
        avgPerLine == XDiv(blockHeight, Num(n), 1)
        normalizedGap == XDiv(avgStep, fontSize, LhUnit)
        normalizedBlock == XDiv(avgPerLine, fontSize, LhUnit)
        blended == XDiv(XAdd(normalizedGap, normalizedBlock), Num(2), 1)
    IN  clampLineHeight(finiteOr(blended, Num(DEFAULT_LINE_HEIGHT)))

\* Inputs: lengths that are zero, negative, ordinary, NaN or infinite.
MaxLhLines == 3
LhLengths == { Num(0), Num(-12 * PxUnit), Num(12 * PxUnit), Num(29), Num(200 * PxUnit),
               NaN, PosInf, NegInf }
LhRatios == { Num(DEFAULT_LINE_HEIGHT), Num(0), Num(-LhUnit), Num(5 * LhUnit), NaN, PosInf }
LhYs == { Num(100 * PxUnit), Num(115 * PxUnit), Num(90 * PxUnit), NaN, PosInf, NegInf }

LhLine(fontSize, height, lineHeight, y) ==
    [fontSize |-> fontSize, height |-> height, lineHeight |-> lineHeight, y |-> y]

LhInputs ==
    { << LhLine(f, h, r, Num(100 * PxUnit)) >> : f \in LhLengths, h \in LhLengths, r \in LhRatios }
    \cup UNION { { << LhLine(f, Num(12 * PxUnit), Num(DEFAULT_LINE_HEIGHT), ys[1]) >>
                   \o [i \in 1..(n - 1) |->
                          LhLine(Num(12 * PxUnit), Num(12 * PxUnit), Num(DEFAULT_LINE_HEIGHT),
                                 ys[i + 1])]
                   : f \in LhLengths, ys \in [1..n -> LhYs] } : n \in 2..MaxLhLines }

InitLineHeight ==
    /\ GeomIdle /\ SaveIdle /\ HookIdle /\ LateIdle
    /\ fnPc = "off" /\ fnName = << >> /\ fnOut = << >>
    /\ psPc = "off" /\ psItems = << >> /\ psLines = << >> /\ psWords = << >>
    /\ psBlocks = << >>
    /\ lhPc = "in" /\ lhLines \in LhInputs /\ lhBlockHeight \in LhLengths /\ lhOut = Num(0)

\* One call of deriveParagraphLineHeight.
LineHeightDerive ==
    /\ lhPc = "in"
    /\ \E order \in SortedByY(lhLines) :
          lhOut' = deriveParagraphLineHeight(lhLines, lhBlockHeight, order)
    /\ lhPc' = "out"
    /\ UNCHANGED << lhLines, lhBlockHeight, fnPc, fnName, fnOut,
                    psPc, psItems, psLines, psWords, psBlocks >>
    /\ UNCHANGED << geomVars, saveVars, hookVars, lateVars >>

NextLineHeight == LineHeightDerive

SpecLineHeight == InitLineHeight /\ [][NextLineHeight]_vars

\* C19. Whatever the lines and the block height are (zero, negative, NaN
\* and infinite values included), the line height deriveParagraphLineHeight
\* returns for a non-empty list of lines is a number between 1 and 3.
C19_LineHeightClamped ==
    (lhPc = "out" /\ lhLines # << >>) =>
        /\ lhOut.k = "num"
        /\ 1 * LhUnit <= lhOut.v /\ lhOut.v <= 3 * LhUnit

C19_Witness ==
    /\ lhPc = "out" /\ Len(lhLines) = 2
    /\ lhBlockHeight = NaN /\ lhLines[2].y = PosInf
    /\ lhOut = Num((12 * LhUnit) \div 10)

\* ------------------------------------------------------------------------
\* Parse route: characters to lines, words and paragraph blocks of one page
\* ------------------------------------------------------------------------

yTol == 3 * PxUnit
alignTol == 10 * PxUnit
gapTol == 18 * PxUnit
fontSizeTol == PxUnit \div 2
BLOCK_WIDTH_CALIBRATION == 4 * PxUnit

\* Characters the page walk reports during one parse.
MaxChars == 4

\* Arguments of onChar: the character, the corners of its quad, the size,
\* the name of its font and its colour as hex.
CharSamples ==
    { [char |-> "a", ulx |-> 10 * PxUnit, uly |-> 100 * PxUnit, lrx |-> 16 * PxUnit, lry |-> 112 * PxUnit,
       size |-> 12 * PxUnit, font |-> << "A", "r", "i", "a", "l", "M", "T" >>, fill |-> "#1a1a1a"],
      [char |-> "b", ulx |-> 16 * PxUnit, uly |-> 102 * PxUnit, lrx |-> 22 * PxUnit, lry |-> 114 * PxUnit,
       size |-> 12 * PxUnit, font |-> << "A", "r", "i", "a", "l", "M", "T" >>, fill |-> "#1a1a1a"],
      [char |-> "c", ulx |-> 25 * PxUnit, uly |-> 103 * PxUnit, lrx |-> 31 * PxUnit, lry |-> 115 * PxUnit,
       size |-> 12 * PxUnit, font |-> << "A", "r", "i", "a", "l", "M", "T" >>, fill |-> "#1a1a1a"],
      [char |-> "d", ulx |-> 25 * PxUnit + 1, uly |-> 104 * PxUnit, lrx |-> 31 * PxUnit + 1, lry |-> 116 * PxUnit,
       size |-> 12 * PxUnit, font |-> << "A", "r", "i", "a", "l", "M", "T" >>, fill |-> "#1a1a1a"],
      [char |-> "K", ulx |-> 16 * PxUnit, uly |-> 98 * PxUnit, lrx |-> 24 * PxUnit, lry |-> 118 * PxUnit,
       size |-> 24 * PxUnit, font |-> << "B", "A", "A", "A", "A", "A", "+", "A", "r", "i", "a", "l", "M", "T", "-", "B", "o", "l", "d" >>, fill |-> "#1a1a1a"],
      [char |-> "s", ulx |-> 29 * PxUnit, uly |-> 100 * PxUnit, lrx |-> 35 * PxUnit, lry |-> 112 * PxUnit,
       size |-> 12 * PxUnit, font |-> << "A", "r", "i", "a", "l", "M", "T" >>, fill |-> "#1a1a1a"],
      [char |-> "t", ulx |-> 40 * PxUnit, uly |-> 100 * PxUnit, lrx |-> 46 * PxUnit, lry |-> 112 * PxUnit,
       size |-> 12 * PxUnit, font |-> << "A", "r", "i", "a", "l", "M", "T" >>, fill |-> "#1a1a1a"],
      [char |-> "e", ulx |-> 10 * PxUnit, uly |-> 115 * PxUnit, lrx |-> 16 * PxUnit, lry |-> 127 * PxUnit,
       size |-> 12 * PxUnit, font |-> << "A", "r", "i", "a", "l", "M", "T" >>, fill |-> "#1a1a1a"],
      [char |-> ".", ulx |-> 16 * PxUnit, uly |-> 115 * PxUnit, lrx |-> 19 * PxUnit, lry |-> 127 * PxUnit,
       size |-> 12 * PxUnit, font |-> << "A", "r", "i", "a", "l", "M", "T" >>, fill |-> "#1a1a1a"],
      [char |-> "f", ulx |-> 28 * PxUnit, uly |-> 130 * PxUnit, lrx |-> 34 * PxUnit, lry |-> 142 * PxUnit,
       size |-> 12 * PxUnit, font |-> << "A", "r", "i", "a", "l", "M", "T" >>, fill |-> "#1a1a1a"],
      [char |-> "g", ulx |-> 29 * PxUnit, uly |-> 131 * PxUnit, lrx |-> 35 * PxUnit, lry |-> 143 * PxUnit,
       size |-> 12 * PxUnit, font |-> << "A", "r", "i", "a", "l", "M", "T" >>, fill |-> "#1a1a1a"],
      [char |-> "h", ulx |-> 10 * PxUnit, uly |-> 115 * PxUnit, lrx |-> 16 * PxUnit, lry |-> 127 * PxUnit,
       size |-> 12 * PxUnit + 1, font |-> << "A", "r", "i", "a", "l", "M", "T" >>, fill |-> "#1a1a1a"],
      [char |-> "i", ulx |-> 10 * PxUnit, uly |-> 115 * PxUnit, lrx |-> 16 * PxUnit, lry |-> 127 * PxUnit,
       size |-> 13 * PxUnit, font |-> << "A", "r", "i", "a", "l", "M", "T" >>, fill |-> "#1a1a1a"],
      [char |-> "j", ulx |-> 10 * PxUnit, uly |-> 115 * PxUnit, lrx |-> 16 * PxUnit, lry |-> 127 * PxUnit,
       size |-> 12 * PxUnit, font |-> << "A", "r", "i", "a", "l", "M", "T" >>, fill |-> "#ff0000"],
      [char |-> "m", ulx |-> 10 * PxUnit, uly |-> 200 * PxUnit, lrx |-> 16 * PxUnit, lry |-> 212 * PxUnit,
       size |-> 0 * PxUnit, font |-> << >>, fill |-> "#1a1a1a"],
      [char |-> " ", ulx |-> 16 * PxUnit, uly |-> 100 * PxUnit, lrx |-> 19 * PxUnit, lry |-> 112 * PxUnit,
       size |-> 12 * PxUnit, font |-> << "A", "r", "i", "a", "l", "M", "T" >>, fill |-> "#1a1a1a"] }

\* onChar: textItems after the callback ran for one character.
onChar(textItems, sample) ==
    IF trim(<< sample.char >>) = << >> THEN textItems
    ELSE
    LET x == sample.ulx
        y == sample.uly
        width == Abs(sample.lrx - x)
        height == Abs(sample.lry - y)
        fontSize == IF sample.size = 0 THEN 12 * PxUnit ELSE sample.size
        font == onCharFont(sample.font)
    IN  Append(textItems,
               [text |-> << sample.char >>, x |-> x, y |-> y, width |-> width,
                height |-> height, fontSize |-> fontSize, fontFamily |-> font.fontFamily,
                fontWeight |-> font.fontWeight, fill |-> sample.fill,
                lineHeight |-> DEFAULT_LINE_HEIGHT])

\* Math.abs(ln.y - topY) < yTol in place of <= yTol.
withinTolStrict(lineY, topY) == Abs(lineY - topY) < yTol

\* Math.abs(ln.y - topY) <= yTol
withinTol(lineY, topY) == Abs(lineY - topY) <= yTol

\* The for-loop over textItems: each item joins the first line within the
\* tolerance of its y, or starts a new line.
RECURSIVE groupLines(_, _)
groupLines(textItems, lines) ==
    IF textItems = << >> THEN lines
    ELSE
    LET it == Head(textItems)
        found == { i \in 1..Len(lines) : withinTol(lines[i].y, it.y) }
    IN  groupLines(Tail(textItems),
                   IF found = {}
                   THEN Append(lines, [y |-> it.y, items |-> << it >>])
                   ELSE [lines EXCEPT ![SetMin(found)].items = Append(@, it)])

\* Array.prototype.sort with a numeric comparator, as the order of indices:
\* ascending keys, equal keys in their earlier order.
StableOrder(keys) ==
    CHOOSE f \in [1..Len(keys) -> 1..Len(keys)] :
        \A i, j \in 1..Len(keys) :
            i < j => \/ keys[f[i]] < keys[f[j]]
                     \/ (keys[f[i]] = keys[f[j]] /\ f[i] < f[j])

\* The lines left in the order of their creation.
sortLinesKeepOrder(lines) == lines

\* lines.sort((a, b) => a.y - b.y)
sortLinesByY(lines) ==
    LET f == StableOrder([i \in 1..Len(lines) |-> lines[i].y])
    IN  [i \in 1..Len(lines) |-> lines[f[i]]]

\* ln.items.sort((a, b) => a.x - b.x)
sortItemsByX(items) ==
    LET f == StableOrder([i \in 1..Len(items) |-> items[i].x])
    IN  [i \in 1..Len(items) |-> items[f[i]]]

\* gap >= fontSize * 0.25 in place of gap > fontSize * 0.25.
reachesQuarter(gap, fontSize) == 4 * gap >= fontSize

\* gap > fontSize * 0.25
exceedsQuarter(gap, fontSize) == 4 * gap > fontSize

\* The loop over the items of one line, from item i on: currentWord is
\* empty or holds the open word.
RECURSIVE mergeItems(_, _, _, _)
mergeItems(items, i, mergedItems, currentWord) ==
    IF i > Len(items) THEN mergedItems
    ELSE
    LET item == items[i]
        word ==
            IF currentWord = << >> THEN item
            ELSE LET open == currentWord[1]
                     gap == item.x - (open.x + open.width)
                 IN  [open EXCEPT
                         !.text = IF exceedsQuarter(gap, open.fontSize)
                                  THEN open.text \o << " " >> \o item.text
                                  ELSE open.text \o item.text,
                         !.width = (item.x + item.width) - open.x]
        closes ==
            \/ i = Len(items)
            \/ exceedsQuarter(items[i + 1].x - (item.x + item.width), item.fontSize)
    IN  IF closes THEN mergeItems(items, i + 1, Append(mergedItems, word), << >>)
        ELSE mergeItems(items, i + 1, mergedItems, << word >>)

\* processedLines: the lines with their items merged into words.
processLines(lines) ==
    LET merged == [i \in 1..Len(lines) |->
                      [y |-> lines[i].y, items |-> mergeItems(lines[i].items, 1, << >>, << >>)]]
    IN  SelectSeq(merged, LAMBDA ln : Len(ln.items) > 0)

\* Array.prototype.join
RECURSIVE join(_, _)
join(texts, sep) ==
    IF texts = << >> THEN << >>
    ELSE IF Len(texts) = 1 THEN texts[1]
    ELSE texts[1] \o sep \o join(Tail(texts), sep)

\* currentLine: the ParagraphLine of a processed line.
paragraphLine(ln) ==
    LET idx == 1..Len(ln.items) IN
    [text |-> join([i \in idx |-> ln.items[i].text], << " " >>),
     minX |-> SetMin({ ln.items[i].x : i \in idx }),
     maxX |-> SetMax({ ln.items[i].x + ln.items[i].width : i \in idx }),
     y |-> ln.y,
     height |-> SetMax({ ln.items[i].height : i \in idx }),
     fontSize |-> SetMax({ ln.items[i].fontSize : i \in idx }),
     fontFamily |-> ln.items[1].fontFamily,
     fontWeight |-> ln.items[1].fontWeight,
     lineHeight |-> ln.items[1].lineHeight,
     fill |-> ln.items[1].fill]

\* prev.text.trim().endsWith(".")
hardBreak(text) == LET trimmed == trim(text) IN trimmed # << >> /\ trimmed[Len(trimmed)] = "."

\* The merge test without the hard break of a line that ends with '.'.
continuesParagraphPastPeriod(prev, currentLine) ==
    LET maxFontSize == Max2(prev.fontSize, currentLine.fontSize)
        aligned == 2 * Abs(prev.minX - currentLine.minX) <= Max2(2 * alignTol, 3 * maxFontSize)
        gap == currentLine.y - prev.y
        sameFontSize == Abs(prev.fontSize - currentLine.fontSize) <= fontSizeTol
        sameColor == prev.fill = currentLine.fill
        gapThreshold == Max2(Max2(prev.height, currentLine.height), maxFontSize) + gapTol
        closeEnough == gap <= gapThreshold
    IN  aligned /\ sameFontSize /\ sameColor /\ closeEnough

\* aligned && sameFontSize && sameColor && !hardBreak && closeEnough
continuesParagraph(prev, currentLine) ==
    LET maxFontSize == Max2(prev.fontSize, currentLine.fontSize)
        aligned == 2 * Abs(prev.minX - currentLine.minX) <= Max2(2 * alignTol, 3 * maxFontSize)
        gap == currentLine.y - prev.y
        sameFontSize == Abs(prev.fontSize - currentLine.fontSize) <= fontSizeTol
        sameColor == prev.fill = currentLine.fill
        gapThreshold == Max2(Max2(prev.height, currentLine.height), maxFontSize) + gapTol
        closeEnough == gap <= gapThreshold
    IN  aligned /\ sameFontSize /\ sameColor /\ ~hardBreak(prev.text) /\ closeEnough

\* The ParsedBlock a paragraph is flushed as.
flushParagraph(currentParagraph) ==
    LET idx == 1..Len(currentParagraph)
        paragraphMinX == SetMin({ currentParagraph[i].minX : i \in idx })
        paragraphMaxX == SetMax({ currentParagraph[i].maxX : i \in idx })
        paragraphMinY == SetMin({ currentParagraph[i].y : i \in idx })
        paragraphHeight ==
            SetMax({ currentParagraph[i].y + currentParagraph[i].height : i \in idx })
                - paragraphMinY
        numbers == [i \in idx |->
                       [fontSize |-> Num(currentParagraph[i].fontSize),
                        height |-> Num(currentParagraph[i].height),
                        lineHeight |-> Num(currentParagraph[i].lineHeight),
                        y |-> Num(currentParagraph[i].y)]]
        order == CHOOSE f \in SortedByY(numbers) : TRUE
    IN  [text |-> join([i \in idx |-> currentParagraph[i].text], << "\n" >>),
         x |-> paragraphMinX,
         y |-> paragraphMinY,
         width |-> Max2(0, paragraphMaxX - paragraphMinX + BLOCK_WIDTH_CALIBRATION),
         height |-> paragraphHeight,
         fontSize |-> currentParagraph[1].fontSize,
         fontFamily |-> currentParagraph[1].fontFamily,
         fontWeight |-> currentParagraph[1].fontWeight,
         lineHeight |-> deriveParagraphLineHeight(numbers, Num(paragraphHeight), order).v,
         fill |-> currentParagraph[1].fill]

\* The blocks with the last paragraph left out.
flushLastDropped(resultBlocks, currentParagraph) == resultBlocks

\* "Flush last paragraph": the blocks after the loop.
flushLast(resultBlocks, currentParagraph) ==
    IF Len(currentParagraph) > 0 THEN Append(resultBlocks, flushParagraph(currentParagraph))
    ELSE resultBlocks

\* The loop over processedLines from line i on, and the last flush.
RECURSIVE assembleBlocks(_, _, _, _)
assembleBlocks(processedLines, i, currentParagraph, resultBlocks) ==
    IF i > Len(processedLines) THEN flushLast(resultBlocks, currentParagraph)
    ELSE
    LET currentLine == paragraphLine(processedLines[i]) IN
    IF Len(currentParagraph) = 0
    THEN assembleBlocks(processedLines, i + 1, << currentLine >>, resultBlocks)
    ELSE IF continuesParagraph(currentParagraph[Len(currentParagraph)], currentLine)
    THEN assembleBlocks(processedLines, i + 1, Append(currentParagraph, currentLine),
                        resultBlocks)
    ELSE assembleBlocks(processedLines, i + 1, << currentLine >>,
                        Append(resultBlocks, flushParagraph(currentParagraph)))

InitParse ==
    /\ GeomIdle /\ SaveIdle /\ HookIdle /\ LateIdle
    /\ fnPc = "off" /\ fnName = << >> /\ fnOut = << >>
    /\ lhPc = "off" /\ lhLines = << >> /\ lhBlockHeight = Num(0) /\ lhOut = Num(0)
    /\ psPc = "walk" /\ psItems = << >> /\ psLines = << >> /\ psWords = << >>
    /\ psBlocks = << >>

\* The page walk reports one more character.
ParseOnChar(sample) ==
    /\ psPc = "walk" /\ Len(psItems) < MaxChars
    /\ psItems' = onChar(psItems, sample)
    /\ UNCHANGED << psPc, psLines, psWords, psBlocks >>
    /\ UNCHANGED << fnPc, fnName, fnOut, lhPc, lhLines, lhBlockHeight, lhOut >>
    /\ UNCHANGED << geomVars, saveVars, hookVars, lateVars >>

\* The walk is over: the items are grouped into lines, the lines and their
\* items sorted, the items merged into words and the lines folded into the
\* blocks of the page.
ParseFinish ==
    /\ psPc = "walk"
    /\ LET lines == LET grouped == sortLinesByY(groupLines(psItems, << >>))
                    IN  [i \in 1..Len(grouped) |->
                            [grouped[i] EXCEPT !.items = sortItemsByX(@)]]
           processedLines == processLines(lines)
       IN  /\ psLines' = lines
           /\ psWords' = processedLines
           /\ psBlocks' = assembleBlocks(processedLines, 1, << >>, << >>)
    /\ psPc' = "done"
    /\ UNCHANGED psItems
    /\ UNCHANGED << fnPc, fnName, fnOut, lhPc, lhLines, lhBlockHeight, lhOut >>
    /\ UNCHANGED << geomVars, saveVars, hookVars, lateVars >>

NextParse ==
    \/ \E sample \in CharSamples : ParseOnChar(sample)
    \/ ParseFinish

SpecParse == InitParse /\ [][NextParse]_vars

\* ------------------------------------------------------------------------
\* Properties of the parse route (SpecParse)
\* ------------------------------------------------------------------------

\* The k-th smallest element of a set of numbers.
KthOf(S, k) == CHOOSE e \in S : Cardinality({ d \in S : d <= e }) = k

\* The elements of seq at the positions in S, in order.
PickAt(seq, S) == [k \in 1..Cardinality(S) |-> seq[KthOf(S, k)]]

\* Item i of the walk starts a line: no line started before it has a y
\* within 3 pixels of its own.
RECURSIVE IsLineCreator(_)
IsLineCreator(i) ==
    \A j \in 1..(i - 1) :
        IsLineCreator(j) => Abs(psItems[j].y - psItems[i].y) > 3 * PxUnit

\* The line item i joins: the earliest started line whose y is within 3
\* pixels.
CreatorOf(i) ==
    SetMin({ j \in 1..i : IsLineCreator(j) /\ Abs(psItems[j].y - psItems[i].y) <= 3 * PxUnit })

\* C15. Line clustering: in walk order every character joins the first
\* line, in order of creation, whose representative y (the y of the
\* character that started it) differs from its own by at most 3, and starts
\* a new line when there is none.  The lines come out by ascending y, their
\* characters by ascending x.  Characters at y = 100, 102 and 200 give
\* exactly 2 lines.
C15_LineClustering ==
    psPc = "done" =>
        LET creators == { i \in 1..Len(psItems) : IsLineCreator(i) } IN
        /\ Len(psLines) = Cardinality(creators)
        /\ \A j \in creators :
              \E k \in 1..Len(psLines) :
                  /\ psLines[k].y = psItems[j].y
                  /\ psLines[k].items =
                         sortItemsByX(PickAt(psItems,
                                             { i \in 1..Len(psItems) : CreatorOf(i) = j }))
        /\ \A k \in 1..(Len(psLines) - 1) : psLines[k].y < psLines[k + 1].y

C15_Witness ==
    /\ psPc = "done"
    /\ [i \in 1..Len(psItems) |-> psItems[i].y] = << 100 * PxUnit, 102 * PxUnit, 200 * PxUnit >>
    /\ Len(psLines) = 2
    /\ Len(psLines[1].items) = 2 /\ Len(psLines[2].items) = 1

\* The gap between character i of a line and the character before it.
GapBefore(c, i) == c[i].x - (c[i - 1].x + c[i - 1].width)

\* The characters of a line after which a word is closed: the last one,
\* and each one whose gap to the next exceeds 25% of its font size.
WordEnds(c) ==
    { i \in 1..Len(c) : i = Len(c) \/ 4 * GapBefore(c, i + 1) > c[i].fontSize }

\* The first character of word m of a line.
WordStart(c, m) == IF m = 1 THEN 1 ELSE KthOf(WordEnds(c), m - 1) + 1

\* The text of the word made of characters from..to of a line whose first
\* character is number first: a space before each later character whose
\* gap exceeds 25% of the font size of the word.
RECURSIVE WordText(_, _, _, _)
WordText(c, first, from, to) ==
    IF from > to THEN << >>
    ELSE (IF from > first /\ 4 * GapBefore(c, from) > c[first].fontSize THEN << " " >> ELSE << >>)
         \o c[from].text \o WordText(c, first, from + 1, to)

\* C16. Word boundaries: within a line, in x order, a word is closed after
\* character c exactly when c is the last character of the line or the gap
\* next.x - (c.x + c.width) exceeds 25% of the font size of c; a character
\* appended to an open word is preceded by an inserted space exactly when
\* its gap to the previous character exceeds 25% of the font size of the
\* word (that of its first character).
C16_WordBoundaries ==
    psPc = "done" =>
        \A k \in 1..Len(psLines) :
            LET c == psLines[k].items
                w == psWords[k].items
            IN  /\ Len(w) = Cardinality(WordEnds(c))
                /\ \A m \in 1..Len(w) :
                      w[m].text = WordText(c, WordStart(c, m), WordStart(c, m),
                                           KthOf(WordEnds(c), m))

C16_Witness ==
    /\ psPc = "done"
    /\ \E k \in 1..Len(psWords) :
          /\ Len(psWords[k].items) = 2
          /\ \E i \in 1..Len(psWords[k].items[1].text) : psWords[k].items[1].text[i] = " "

\* C17 as stated. The bounding box of a merged word is the union of the
\* boxes of its characters: its x is their least x, its right edge their
\* greatest right edge, and its vertical extent covers each of them.
C17_WordBoxIsUnion ==
    psPc = "done" =>
        \A k \in 1..Len(psLines) :
            LET c == psLines[k].items
                w == psWords[k].items
            IN  \A m \in 1..Len(w) :
                    LET members == WordStart(c, m)..KthOf(WordEnds(c), m) IN
                    /\ w[m].x = SetMin({ c[i].x : i \in members })
                    /\ w[m].x + w[m].width = SetMax({ c[i].x + c[i].width : i \in members })
                    /\ \A i \in members :
                          /\ w[m].y <= c[i].y
                          /\ c[i].y + c[i].height <= w[m].y + w[m].height

\* The number of lines a block holds: one more than the newlines of its
\* text.
LinesIn(block) == Cardinality({ i \in 1..Len(block.text) : block.text[i] = "\n" }) + 1

RECURSIVE LinesUpTo(_)
LinesUpTo(b) == IF b = 0 THEN 0 ELSE LinesUpTo(b - 1) + LinesIn(psBlocks[b])

\* The block that holds line i.
BlockOfLine(i) == SetMin({ b \in 1..Len(psBlocks) : i <= LinesUpTo(b) })

\* The five conditions of the merge rule for the previous line P and the
\* line L.
MergeRule(P, L) ==
    LET maxFontSize == IF P.fontSize >= L.fontSize THEN P.fontSize ELSE L.fontSize
        reach == SetMax({ P.height, L.height, maxFontSize }) + 18 * PxUnit
    IN  /\ 2 * Abs(P.minX - L.minX) <= SetMax({ 2 * 10 * PxUnit, 3 * maxFontSize })
        /\ 2 * Abs(P.fontSize - L.fontSize) <= PxUnit
        /\ P.fill = L.fill
        /\ trim(P.text)[Len(trim(P.text))] # "."
        /\ L.y - P.y <= reach

\* C14. Paragraph merge rule: folding the finalized lines by ascending y,
\* a line L joins the paragraph of the line P before it exactly when
\* |P.minX - L.minX| <= max(10, 1.5 x max font size), the font sizes differ
\* by at most 0.5, the fills are equal, the trimmed text of P does not end
\* with '.', and L.y - P.y <= max(P.height, L.height, max font size) + 18;
\* otherwise the paragraph is flushed as a block and L starts the next one.
C14_ParagraphMergeRule ==
    psPc = "done" =>
        \A i \in 1..(Len(psWords) - 1) :
            (BlockOfLine(i) = BlockOfLine(i + 1))
                <=> MergeRule(paragraphLine(psWords[i]), paragraphLine(psWords[i + 1]))

C14_Witness ==
    /\ psPc = "done"
    /\ [k \in 1..Len(psLines) |-> psLines[k].y] = << 100 * PxUnit, 115 * PxUnit, 130 * PxUnit >>
    /\ Len(psBlocks) = 2
    /\ psBlocks[1].text = << "a", "\n", "e", "." >>
    /\ psBlocks[2].text = << "f" >>

\* C18. No line is lost or duplicated: the texts of the blocks, put one
\* after the other, are the texts of the finalized lines in order, joined
\* by newlines, so every line is in exactly one block and a block holds
\* consecutive lines; the last paragraph is flushed; a page without lines
\* gives no block.
C18_LinesPartitioned ==
    psPc = "done" =>
        /\ join([b \in 1..Len(psBlocks) |-> psBlocks[b].text], << "\n" >>)
              = join([i \in 1..Len(psWords) |-> paragraphLine(psWords[i]).text], << "\n" >>)
        /\ Len(psBlocks) <= Len(psWords)
        /\ \A b \in 1..Len(psBlocks) : psBlocks[b].text # << >>
        /\ Len(psWords) = Len(psLines)
        /\ (psLines = << >>) <=> (psBlocks = << >>)
        /\ psLines # << >> =>
              LET text == psBlocks[Len(psBlocks)].text
                  last == paragraphLine(psWords[Len(psWords)]).text
              IN  SubSeq(text, Len(text) - Len(last) + 1, Len(text)) = last

C18_Witness ==
    /\ psPc = "done"
    /\ Len(psLines) = 3 /\ Len(psBlocks) = 2
    /\ psBlocks[1].text = << "a", " ", "s", "\n", "e" >>
    /\ psBlocks[2].text = << "m" >>

\* ------------------------------------------------------------------------
\* Properties of the save response (SpecSave)
\* ------------------------------------------------------------------------

\* C25. A save is all-or-nothing: when reading the request, parsing the
\* payload, loading the document, applying an overlay or producing the
\* output fails, the answer has an error status and a JSON error message
\* and carries neither PDF bytes nor a preview URL; otherwise the answer
\* has status 200 and carries exactly one output document, the PDF bytes
\* or the preview URL; no answer carries both an error and an output, and
\* nothing is answered before the request is done.
C25_AllOrNothing ==
    /\ svPc # "done" => svResponse = NoSaveResponse
    /\ (svPc = "done" /\ svResult = "error") =>
          /\ svResponse.status \in {400, 500}
          /\ svResponse.error
          /\ ~svResponse.pdf /\ ~svResponse.previewUrl
          /\ svResponse.stage \in {"request", "load", "overlay", "output"}
    /\ (svPc = "done" /\ svResult = "ok") =>
          /\ svResponse.status = 200
          /\ ~svResponse.error
          /\ svResponse.pdf # svResponse.previewUrl
          /\ svQueue = << >> /\ Len(svLog) = Len(svPages)
    /\ svPc = "done" => svResult \in {"ok", "error"}
    /\ ~(svResponse.error /\ (svResponse.pdf \/ svResponse.previewUrl))

\* An overlay failed after its mask rectangle was drawn on the second
\* page: the answer is the error alone.
C25_Witness ==
    /\ svPc = "done" /\ svResponse.stage = "overlay" /\ svResponse.status = 500
    /\ Len(svLog) >= 1 /\ svDraws # << >>
    /\ ~svResponse.pdf /\ ~svResponse.previewUrl

\* ------------------------------------------------------------------------
\* Parse route: colour of a character (toHexComponent, rgbToHex, onChar)
\* ------------------------------------------------------------------------
\* Channels are JS numbers counted in 1/ChUnit (a power of two, so that
\* value * 255 is exact in binary floating point as it is here).

ChUnit == 8

COLOR_FALLBACK == << "#", "1", "a", "1", "a", "1", "a" >>

HexDigits == << "0", "1", "2", "3", "4", "5", "6", "7", "8", "9", "a", "b", "c", "d", "e", "f" >>

\* Math.floor in place of Math.round: a channel in 1/ChUnit to a whole number.
MathFloor(x) ==
    IF x.k = "num" THEN Num(x.v \div ChUnit) ELSE x

\* Math.round of a channel in 1/ChUnit: the nearest whole number, halves up.
MathRound(x) ==
    IF x.k = "num" THEN Num((2 * x.v + ChUnit) \div (2 * ChUnit)) ELSE x

\* Math.min(255, x) and Math.max(0, x) of whole numbers; NaN stays NaN.
MathMin255(x) ==
    CASE x.k = "nan" -> NaN
      [] x.k = "inf" -> Num(255)
      [] x.k = "ninf" -> NegInf
      [] OTHER -> Num(Min2(255, x.v))

MathMax0(x) ==
    CASE x.k = "nan" -> NaN
      [] x.k = "ninf" -> Num(0)
      [] x.k = "inf" -> PosInf
      [] OTHER -> Num(Max2(0, x.v))

\* Number.prototype.toString(16) of a whole number in 0..255, or of NaN.
toString16(x) ==
    IF x.k = "nan" THEN << "N", "a", "N" >>
    ELSE IF x.v < 16 THEN << HexDigits[x.v + 1] >>
    ELSE << HexDigits[(x.v \div 16) + 1], HexDigits[(x.v % 16) + 1] >>

\* String.prototype.padStart(2, "0").
padStart2(str) ==
    IF Len(str) >= 2 THEN str
    ELSE IF Len(str) = 1 THEN << "0" >> \o str
    ELSE << "0", "0" >>

toHexComponent(value) ==
    LET normalized ==
            CASE value.k = "num" -> IF value.v > ChUnit THEN value ELSE Num(value.v * 255)
              [] value.k = "inf" -> PosInf
              [] value.k = "ninf" -> NegInf
              [] OTHER -> NaN
        clamped == MathMax0(MathMin255(MathRound(normalized)))
    IN  padStart2(toString16(clamped))

rgbToHex(r, g, b) ==
    << "#" >> \o toHexComponent(r) \o toHexComponent(g) \o toHexComponent(b)

\* The fill onChar stores for a character whose colour is colorData: null
\* or undefined, something that is no array, or an array of channels.
onCharFill(colorData) ==
    IF colorData.k = "array" /\ Len(colorData.ch) >= 3
    THEN rgbToHex(colorData.ch[1], colorData.ch[2], colorData.ch[3])
    ELSE COLOR_FALLBACK

\* Channels: 0, 1/8, 1/2, 1, 1.5, 127.5, 255, 255.5, 300, -1, and the
\* numbers that are not finite.
ChannelSamples ==
    { Num(0), Num(1), Num(4), Num(ChUnit), Num(12), Num(1020), Num(255 * ChUnit),
      Num(2044), Num(300 * ChUnit), Num(-ChUnit), NaN, PosInf, NegInf }

ColorSamples ==
    { [k |-> "null", ch |-> << >>], [k |-> "other", ch |-> << >>],
      [k |-> "array", ch |-> << >>] }
    \cup { [k |-> "array", ch |-> << a >>] : a \in ChannelSamples }
    \cup { [k |-> "array", ch |-> << a, b >>] : a, b \in { Num(0), Num(ChUnit), NaN } }
    \cup { [k |-> "array", ch |-> << a, b, c >>] : a, b, c \in ChannelSamples }

InitColor ==
    /\ EarlyIdle /\ PagesIdle /\ DocIdle /\ PageIdle /\ ExportIdle
    /\ clPc = "in" /\ clData \in ColorSamples /\ clOut = << >>

\* onChar takes the fill of one character.
ColorResolve ==
    /\ clPc = "in"
    /\ clOut' = << onCharFill(clData) >>
    /\ clPc' = "out"
    /\ UNCHANGED << clData, notColor >>

NextColor == ColorResolve

SpecColor == InitColor /\ [][NextColor]_vars

\* n is the whole number nearest to the channel v (in 1/ChUnit) taken as
\* it is when above 1 and times 255 otherwise, halves up, kept in 0..255.
IsChannelByte(n, v) ==
    LET twice == IF v > ChUnit THEN 2 * v ELSE 2 * 255 * v
        lo == 2 * ChUnit * n - ChUnit
        hi == 2 * ChUnit * n + ChUnit
    IN  \/ n = 0 /\ twice < hi
        \/ n = 255 /\ twice >= lo
        \/ n \in 1..254 /\ lo <= twice /\ twice < hi

IsHexDigit(c) == \E i \in 1..16 : HexDigits[i] = c

\* C22. Each finite channel of a colour triple is turned into two lower-
\* case hex digits: a channel up to 1 is scaled by 255, a channel above 1
\* is used as is, then it is rounded and clamped to [0, 255]; (1, 0, 0) and
\* (255, 0, 0) both give '#ff0000'; every triple of numbers gives '#' and
\* exactly six hex digits.
C22_ColourConversion ==
    (clPc = "out" /\ clData.k = "array" /\ Len(clData.ch) = 3
        /\ \A i \in 1..3 : clData.ch[i].k # "nan") =>
        /\ Len(clOut[1]) = 7
        /\ clOut[1][1] = "#"
        /\ \A j \in 2..7 : IsHexDigit(clOut[1][j])
        /\ \A i \in 1..3 :
              clData.ch[i].k = "num" =>
                  \E n \in 0..255 :
                      /\ IsChannelByte(n, clData.ch[i].v)
                      /\ clOut[1][2 * i] = HexDigits[(n \div 16) + 1]
                      /\ clOut[1][2 * i + 1] = HexDigits[(n % 16) + 1]
        /\ clData.ch \in { << Num(ChUnit), Num(0), Num(0) >>,
                           << Num(255 * ChUnit), Num(0), Num(0) >> } =>
              clOut[1] = << "#", "f", "f", "0", "0", "0", "0" >>

\* (0.5, 1.5, 255.5) gives '#8002ff'.
C22_Witness ==
    /\ clPc = "out"
    /\ clData = [k |-> "array", ch |-> << Num(4), Num(12), Num(2044) >>]
    /\ clOut[1] = << "#", "8", "0", "0", "2", "f", "f" >>

\* The colour is absent or malformed: null or undefined, no array, fewer
\* than three channels, or a channel that is not a finite number.
ColourMalformed(colorData) ==
    \/ colorData.k # "array"
    \/ Len(colorData.ch) < 3
    \/ \E i \in 1..3 : ~IsFinite(colorData.ch[i])

\* C23. A character whose colour is absent or malformed gets the fill
\* '#1a1a1a'.
C23_FallbackFill ==
    (clPc = "out" /\ ColourMalformed(clData)) => clOut[1] = COLOR_FALLBACK

\* ------------------------------------------------------------------------
\* Parse route: POST /api/parse, the request, the page loop, the response
\* ------------------------------------------------------------------------
\* A page of the uploaded document either carries text, carries none, or
\* makes loadPage / toStructuredText / walk throw.  The blocks of a page
\* are built as in SpecParse; here a page counts its blocks only.

MaxParsePages == 4

PageOutcomes == { "text", "empty", "throws" }

ParseDocs ==
    UNION { [1..n -> PageOutcomes] : n \in 0..MaxParsePages }

ParseRequests ==
    { [file |-> "none", doc |-> << >>], [file |-> "broken", doc |-> << >>] }
    \cup { [file |-> "pdf", doc |-> d] : d \in ParseDocs }

InitPages ==
    /\ EarlyIdle /\ ColorIdle /\ DocIdle /\ PageIdle /\ ExportIdle
    /\ ppPc = "start" /\ ppReq \in ParseRequests /\ ppI = 0
    /\ ppPages = << >> /\ ppResp = NoParseResponse

\* formData.get("file") is no Blob: status 400.
ParseNoFile ==
    /\ ppPc = "start" /\ ppReq.file = "none"
    /\ ppResp' = [status |-> 400, pages |-> << >>, error |-> "No file provided"]
    /\ ppPc' = "done"
    /\ UNCHANGED << ppReq, ppI, ppPages, notPages >>

\* mupdf.Document.openDocument throws: the catch answers with status 500.
ParseOpenThrows ==
    /\ ppPc = "start" /\ ppReq.file = "broken"
    /\ ppResp' = [status |-> 500, pages |-> << >>, error |-> "Parse failed"]
    /\ ppPc' = "done"
    /\ UNCHANGED << ppReq, ppI, ppPages, notPages >>

\* openDocument, countPages, pages = [], i = 0.
ParseOpen ==
    /\ ppPc = "start" /\ ppReq.file = "pdf"
    /\ ppI' = 0
    /\ ppPages' = << >>
    /\ ppPc' = "loop"
    /\ UNCHANGED << ppReq, ppResp, notPages >>

\* One iteration of the page loop: the page is extracted and pushed.
ParsePage ==
    /\ ppPc = "loop" /\ ppI < Len(ppReq.doc) /\ ppReq.doc[ppI + 1] # "throws"
    /\ ppPages' = Append(ppPages, [pageNumber |-> ppI + 1,
                                   blocks |-> IF ppReq.doc[ppI + 1] = "text" THEN 1 ELSE 0])
    /\ ppI' = ppI + 1
    /\ UNCHANGED << ppPc, ppReq, ppResp, notPages >>

\* One iteration of the page loop throws: the catch around the whole loop
\* answers with status 500 and the message.
ParsePageThrows ==
    /\ ppPc = "loop" /\ ppI < Len(ppReq.doc) /\ ppReq.doc[ppI + 1] = "throws"
    /\ ppResp' = [status |-> 500, pages |-> << >>, error |-> "Parse failed"]
    /\ ppPc' = "done"
    /\ UNCHANGED << ppReq, ppI, ppPages, notPages >>

\* i = numPages: NextResponse.json({ pages }).
ParseRespond ==
    /\ ppPc = "loop" /\ ppI = Len(ppReq.doc)
    /\ ppResp' = [status |-> 200, pages |-> ppPages, error |-> ""]
    /\ ppPc' = "done"
    /\ UNCHANGED << ppReq, ppI, ppPages, notPages >>

NextPages ==
    \/ ParseNoFile
    \/ ParseOpenThrows
    \/ ParseOpen
    \/ ParsePage
    \/ ParsePageThrows
    \/ ParseRespond

SpecPages == InitPages /\ [][NextPages]_vars

\* C24. Per-page isolation: when the document was opened and the request
\* is answered, every page whose extraction does not throw is part of the
\* parse result, whatever the other pages did.
C24_PerPageIsolation ==
    (ppPc = "done" /\ ppReq.file = "pdf") =>
        \A n \in 1..Len(ppReq.doc) :
            ppReq.doc[n] # "throws" =>
                \E j \in 1..Len(ppResp.pages) : ppResp.pages[j].pageNumber = n

\* ------------------------------------------------------------------------
\* usePdfDocument: loading the document of fileUrl
\* ------------------------------------------------------------------------
\* File URLs are numbered, 0 is the empty string.  Load l produces document
\* l with l pages.  A state update made inside startTransition waits in
\* dcPending until React renders it; an update made outside is rendered at
\* once, and the queued ones before it are replayed under it.

FileUrls == 0..2

InitDoc ==
    /\ EarlyIdle /\ ColorIdle /\ PagesIdle /\ PageIdle /\ ExportIdle
    /\ dcPc = "mounted" /\ dcUrl = 0 /\ dcState = NoDocState
    /\ dcPending = << "clear" >>
    /\ dcLoads = [l \in LoadIds |-> NoLoad] /\ dcEffect = 0 /\ dcStarted = 0
    /\ dcDestroyed = {}

\* The cleanup of the effect of load l: cancelled = true,
\* loadingTask?.destroy(), currentDoc?.destroy().
CleanedUp(loads, l) ==
    IF l = 0 THEN loads
    ELSE [loads EXCEPT ![l].cancelled = TRUE,
                       ![l].taskDestroyed = loads[l].pc \in {"task", "done"}]

DestroyedByCleanup(l) ==
    IF l # 0 /\ dcLoads[l].pc = "done" THEN {l} ELSE {}

\* The state after a queued update: the updater of the empty fileUrl, or
\* the loading state.
AfterUpdate(state, update) ==
    IF update = "clear"
    THEN NoDocState
    ELSE [doc |-> 0, pageCount |-> 0, loading |-> TRUE, error |-> FALSE]

\* fileUrl changes to u: the cleanup of the running effect, then the effect
\* again.
DocSetUrl(u) ==
    /\ dcPc = "mounted" /\ u # dcUrl
    /\ u # 0 => dcStarted < MaxLoads
    /\ dcUrl' = u
    /\ dcDestroyed' = dcDestroyed \cup DestroyedByCleanup(dcEffect)
    /\ IF u = 0
       THEN /\ dcPending' = Append(dcPending, "clear")
            /\ dcLoads' = CleanedUp(dcLoads, dcEffect)
            /\ dcEffect' = 0
            /\ UNCHANGED dcStarted
       ELSE /\ dcPending' = Append(dcPending, "loading")
            /\ dcStarted' = dcStarted + 1
            /\ dcEffect' = dcStarted + 1
            /\ dcLoads' = [CleanedUp(dcLoads, dcEffect) EXCEPT
                              ![dcStarted + 1] = [pc |-> "pdfjs", url |-> u,
                                                  cancelled |-> FALSE,
                                                  taskDestroyed |-> FALSE]]
    /\ UNCHANGED << dcPc, dcState, notDoc >>

\* React renders the updates queued by startTransition; the updater of the
\* empty fileUrl destroys the document of the state it replaces.
DocRenderTransition ==
    /\ dcPc = "mounted" /\ dcPending # << >>
    /\ dcState' = AfterUpdate(dcState, dcPending[Len(dcPending)])
    /\ dcDestroyed' = dcDestroyed \cup
           IF dcState.doc # 0 /\ dcPending[1] = "clear" THEN {dcState.doc} ELSE {}
    /\ dcPending' = << >>
    /\ UNCHANGED << dcPc, dcUrl, dcLoads, dcEffect, dcStarted, notDoc >>

\* await getPdfjs() returns: loadingTask = pdfjsLib.getDocument(fileUrl).
DocGetDocument(l) ==
    /\ dcLoads[l].pc = "pdfjs"
    /\ dcLoads' = [dcLoads EXCEPT ![l].pc = "task"]
    /\ UNCHANGED << dcPc, dcUrl, dcState, dcPending, dcEffect, dcStarted, dcDestroyed,
                    notDoc >>

\* await loadingTask.promise returns the document: a cancelled load
\* destroys it, another one keeps it in currentDoc and sets the state.
DocLoaded(l) ==
    /\ dcLoads[l].pc = "task"
    /\ IF dcLoads[l].cancelled
       THEN /\ dcLoads' = [dcLoads EXCEPT ![l].pc = "dropped"]
            /\ dcDestroyed' = dcDestroyed \cup {l}
            /\ UNCHANGED << dcState, dcPending >>
       ELSE /\ dcLoads' = [dcLoads EXCEPT ![l].pc = "done"]
            /\ dcState' = [doc |-> l, pageCount |-> l, loading |-> FALSE, error |-> FALSE]
            /\ dcPending' = << >>
            /\ UNCHANGED dcDestroyed
    /\ UNCHANGED << dcPc, dcUrl, dcEffect, dcStarted, notDoc >>

\* getPdfjs or loadingTask.promise rejects (a destroyed loading task
\* rejects): the catch sets the error state unless the load is cancelled.
DocLoadFails(l) ==
    /\ dcLoads[l].pc \in {"pdfjs", "task"}
    /\ dcLoads' = [dcLoads EXCEPT ![l].pc = "failed"]
    /\ IF dcLoads[l].cancelled
       THEN UNCHANGED << dcState, dcPending >>
       ELSE /\ dcState' = [doc |-> 0, pageCount |-> 0, loading |-> FALSE, error |-> TRUE]
            /\ dcPending' = << >>
    /\ UNCHANGED << dcPc, dcUrl, dcEffect, dcStarted, dcDestroyed, notDoc >>

\* The component unmounts: the cleanup of the running effect; the state and
\* its queued updates go with the component.
DocUnmount ==
    /\ dcPc = "mounted"
    /\ dcPc' = "unmounted"
    /\ dcLoads' = CleanedUp(dcLoads, dcEffect)
    /\ dcDestroyed' = dcDestroyed \cup DestroyedByCleanup(dcEffect)
    /\ dcPending' = << >>
    /\ UNCHANGED << dcUrl, dcState, dcEffect, dcStarted, notDoc >>

NextDoc ==
    \/ \E u \in FileUrls : DocSetUrl(u)
    \/ DocRenderTransition
    \/ \E l \in LoadIds : DocGetDocument(l)
    \/ \E l \in LoadIds : DocLoaded(l)
    \/ \E l \in LoadIds : DocLoadFails(l)
    \/ DocUnmount

SpecDoc == InitDoc /\ [][NextDoc]_vars

\* Load l is superseded: fileUrl changed or the component unmounted after
\* it started.
Superseded(l) == dcLoads[l].pc # "none" /\ (dcEffect # l \/ dcPc = "unmounted")

\* Load l has produced its document.
Produced(l) == dcLoads[l].pc \in {"done", "dropped"}

\* C26, first part. A load that ended after it was superseded has not
\* written into the state.
C26_NoStaleWrite ==
    \A l \in LoadIds :
        (Superseded(l) /\ dcLoads[l].pc \in {"dropped", "failed"}) =>
            dcState.doc # l

\* C26, second part. The document a superseded load produced is destroyed.
C26_StaleDocDestroyed ==
    \A l \in LoadIds : (Superseded(l) /\ Produced(l)) => l \in dcDestroyed

\* C26. Stale document loads are discarded: a load superseded by a change
\* of fileUrl or by the unmount never writes its result into the state and
\* the document it produced is destroyed; whenever state.doc is not null it
\* is the document loaded for the current fileUrl, and it is not destroyed.
C26_StaleLoadsDiscarded ==
    /\ C26_NoStaleWrite
    /\ C26_StaleDocDestroyed
    /\ (dcPc = "mounted" /\ dcState.doc # 0) =>
          /\ dcState.doc \notin dcDestroyed
          /\ dcLoads[dcState.doc].url = dcUrl
          /\ dcEffect = dcState.doc

\* ------------------------------------------------------------------------
\* The page component and the store: upload, zoom, rotation, object URLs
\* ------------------------------------------------------------------------
\* Object URLs are numbered in the order of their creation, 0 is the empty
\* fileUrl.  parsedPages is null (0) or a parse result (its number).  The
\* disabled attribute of the zoom buttons only removes clicks: the handlers
\* are taken for every click.

\* The rotation with the remainder left as it is.
normalizeRotationNone(value) == value

normalizeRotation(value) ==
    LET normalized == IF value >= 0 THEN value % 360 ELSE -((-value) % 360)
    IN  IF normalized < 0 THEN normalized + 360 ELSE normalized

setZoom(state, v) == [state EXCEPT !.zoom = v]

\* setRotation without the spread of state.rotations.
setRotationAlone(state, page, v) ==
    [state EXCEPT !.rotations = [q \in {page} |-> normalizeRotation(v)]]

setRotation(state, page, v) ==
    [state EXCEPT !.rotations =
        [q \in (DOMAIN state.rotations) \cup {page} |->
            IF q = page THEN normalizeRotation(v) ELSE state.rotations[q]]]

resetRotations(state) == [state EXCEPT !.rotations = NoRotations]

setEditMode(state, v) == [state EXCEPT !.editMode = v]

setParsedPages(state, pages) == [state EXCEPT !.parsedPages = pages]

setParseError(state, err) == [state EXCEPT !.parseError = err]

\* rotations[pageNumber] ?? 0.
RotationOf(state, pageNumber) ==
    IF pageNumber \in DOMAIN state.rotations THEN state.rotations[pageNumber] ELSE 0

\* The cleanup of the effect on fileUrl without the revoke.
cleanupKeepsUrl(urls, fileUrl) == urls

\* The cleanup of the effect on fileUrl: URL.revokeObjectURL(fileUrl)
\* unless fileUrl is empty.
cleanupFileUrl(urls, fileUrl) ==
    IF fileUrl # 0 THEN [urls EXCEPT ![fileUrl] = "revoked"] ELSE urls

\* fitToWidth without the snap to ZOOM_STEP.
fitZoomUnsnapped(rawTenths) ==
    Min2(ZOOM_MAX, Max2(ZOOM_MIN, rawTenths \div 10))

\* The zoom fitToWidth sets for a raw percentage given in tenths:
\* Math.round(rawPercent / ZOOM_STEP) * ZOOM_STEP, clamped.
fitZoom(rawTenths) ==
    LET snapped == ((2 * rawTenths + 10 * ZOOM_STEP) \div (20 * ZOOM_STEP)) * ZOOM_STEP
    IN  Min2(ZOOM_MAX, Max2(ZOOM_MIN, snapped))

\* availableWidth / viewport.width * 100 in tenths: 0.1, 44.9, 45, 123.4,
\* 125, 294.9, 295, 305.1, 1000.
FitPercents == { 1, 449, 450, 1234, 1250, 2949, 2950, 3051, 10000 }

InitPage ==
    /\ EarlyIdle /\ ColorIdle /\ PagesIdle /\ DocIdle /\ ExportIdle
    /\ pgPc = "mounted" /\ pgStore = InitialStore /\ pgFileUrl = 0
    /\ pgUrls = [u \in UrlIds |-> "none"] /\ pgPendingFit = FALSE
    /\ pgClicks = [p \in StorePages |-> 0]

\* handleUpload with a file: a new object URL becomes fileUrl, the zoom and
\* the rotations are reset; the render that follows runs the cleanup of
\* the effect on the previous fileUrl.
handleUpload ==
    /\ pgPc = "mounted"
    /\ \E url \in UrlIds :
          /\ pgUrls[url] = "none"
          /\ \A u \in UrlIds : u < url => pgUrls[u] # "none"
          /\ pgUrls' = cleanupFileUrl([pgUrls EXCEPT ![url] = "live"], pgFileUrl)
          /\ pgFileUrl' = url
    /\ pgStore' = resetRotations(setZoom(pgStore, ZOOM_DEFAULT))
    /\ pgPendingFit' = TRUE
    /\ pgClicks' = [p \in StorePages |-> 0]
    /\ UNCHANGED << pgPc, notPage >>

\* MinimapItem.handleRotate: onRotate(pageNumber, 90), handleRotate of the
\* page.
handleRotate(pageNumber, delta) ==
    /\ pgPc = "mounted" /\ pgFileUrl # 0
    /\ pgClicks[pageNumber] < MaxClicks
    /\ pgStore' = setRotation(pgStore, pageNumber, RotationOf(pgStore, pageNumber) + delta)
    /\ pgClicks' = [pgClicks EXCEPT ![pageNumber] = @ + 1]
    /\ UNCHANGED << pgPc, pgFileUrl, pgUrls, pgPendingFit, notPage >>

zoomIn ==
    /\ pgPc = "mounted"
    /\ pgStore' = setZoom(pgStore, Min2(ZOOM_MAX, pgStore.zoom + ZOOM_STEP))
    /\ UNCHANGED << pgPc, pgFileUrl, pgUrls, pgPendingFit, pgClicks, notPage >>

zoomOut ==
    /\ pgPc = "mounted"
    /\ pgStore' = setZoom(pgStore, Max2(ZOOM_MIN, pgStore.zoom - ZOOM_STEP))
    /\ UNCHANGED << pgPc, pgFileUrl, pgUrls, pgPendingFit, pgClicks, notPage >>

resetZoom ==
    /\ pgPc = "mounted"
    /\ pgStore' = setZoom(pgStore, ZOOM_DEFAULT)
    /\ UNCHANGED << pgPc, pgFileUrl, pgUrls, pgPendingFit, pgClicks, notPage >>

\* fitToWidth with a finite, positive raw percentage.
fitToWidth(rawTenths) ==
    /\ pgPc = "mounted" /\ pgFileUrl # 0 /\ pgPendingFit
    /\ pgStore' = setZoom(pgStore, fitZoom(rawTenths))
    /\ pgPendingFit' = FALSE
    /\ UNCHANGED << pgPc, pgFileUrl, pgUrls, pgClicks, notPage >>

\* doc.getPage(1) throws in fitToWidth: the catch drops the pending fit.
fitToWidthFails ==
    /\ pgPc = "mounted" /\ pgFileUrl # 0 /\ pgPendingFit
    /\ pgPendingFit' = FALSE
    /\ UNCHANGED << pgPc, pgStore, pgFileUrl, pgUrls, pgClicks, notPage >>

\* The scroll area takes another height (a resize): a fit is pending again.
updateHeight ==
    /\ pgPc = "mounted" /\ pgFileUrl # 0 /\ ~pgPendingFit
    /\ pgPendingFit' = TRUE
    /\ UNCHANGED << pgPc, pgStore, pgFileUrl, pgUrls, pgClicks, notPage >>

\* The other setters of the store.
StoreSetEditMode(v) ==
    /\ pgPc = "mounted" /\ pgStore.editMode # v
    /\ pgStore' = setEditMode(pgStore, v)
    /\ UNCHANGED << pgPc, pgFileUrl, pgUrls, pgPendingFit, pgClicks, notPage >>

StoreSetParsed(pages, err) ==
    /\ pgPc = "mounted" /\ pgFileUrl # 0
    /\ << pgStore.parsedPages, pgStore.parseError >> # << pages, err >>
    /\ pgStore' = setParseError(setParsedPages(pgStore, pages), err)
    /\ UNCHANGED << pgPc, pgFileUrl, pgUrls, pgPendingFit, pgClicks, notPage >>

\* The page unmounts: the cleanup of the effect on fileUrl.
PageUnmount ==
    /\ pgPc = "mounted"
    /\ pgPc' = "unmounted"
    /\ pgUrls' = cleanupFileUrl(pgUrls, pgFileUrl)
    /\ UNCHANGED << pgStore, pgFileUrl, pgPendingFit, pgClicks, notPage >>

NextPage ==
    \/ handleUpload
    \/ \E p \in StorePages : handleRotate(p, 90)
    \/ zoomIn
    \/ zoomOut
    \/ resetZoom
    \/ \E rawTenths \in FitPercents : fitToWidth(rawTenths)
    \/ fitToWidthFails
    \/ updateHeight
    \/ \E v \in BOOLEAN : StoreSetEditMode(v)
    \/ \E parsed \in { << 0, "" >>, << 1, "" >>, << 0, "Parse failed" >> } :
          StoreSetParsed(parsed[1], parsed[2])
    \/ PageUnmount

SpecPage == InitPage /\ [][NextPage]_vars

\* ------------------------------------------------------------------------
\* Properties of the page component and the store (SpecPage)
\* ------------------------------------------------------------------------

\* C27. Pages rotate in steps of 90 degrees: every stored rotation is one
\* of 0, 90, 180, 270, and after the k-th rotate click on a page since the
\* last upload the rotation of the page is (90 * k) mod 360, so that four
\* clicks bring it back to 0.
C27_QuarterTurns ==
    /\ \A p \in DOMAIN pgStore.rotations : pgStore.rotations[p] \in {0, 90, 180, 270}
    /\ \A p \in StorePages : RotationOf(pgStore, p) = (90 * pgClicks[p]) % 360

\* Page 1 was clicked four times and is back at 0, page 2 once.
C27_Witness ==
    /\ pgClicks[1] = 4 /\ 1 \in DOMAIN pgStore.rotations /\ pgStore.rotations[1] = 0
    /\ pgClicks[2] = 1 /\ RotationOf(pgStore, 2) = 90

\* Page q has the same entry, or none, in the rotations of both stores.
SameEntry(a, b, q) ==
    /\ (q \in DOMAIN a.rotations) = (q \in DOMAIN b.rotations)
    /\ RotationOf(a, q) = RotationOf(b, q)

SameOutsideRotations(a, b) ==
    /\ a.zoom = b.zoom /\ a.editMode = b.editMode
    /\ a.parsedPages = b.parsedPages /\ a.parseError = b.parseError

\* C28. Rotation applies per page: setRotation(p, v) changes the entry of
\* page p only and leaves the entries of the other pages, the zoom,
\* editMode, parsedPages and parseError as they are; resetRotations puts
\* every page back to rotation 0 and changes nothing else.  Every step of
\* the page that changes the rotations is a rotate click on one page, or
\* the reset of an upload.
C28_RotationPerPage ==
    /\ [](\A p \in 1..(MaxStorePages + 1), v \in {-90, 45, 90, 360, 450} :
             LET after == setRotation(pgStore, p, v) IN
             /\ SameOutsideRotations(after, pgStore)
             /\ \A q \in 1..(MaxStorePages + 1) : q # p => SameEntry(after, pgStore, q)
             /\ RotationOf(after, p) \in 0..359)
    /\ [](LET after == resetRotations(pgStore) IN
             /\ SameOutsideRotations(after, pgStore)
             /\ \A q \in 1..(MaxStorePages + 1) : RotationOf(after, q) = 0)
    /\ [][pgStore'.rotations # pgStore.rotations =>
             \/ /\ pgStore'.rotations = NoRotations
                /\ pgStore'.editMode = pgStore.editMode
                /\ pgStore'.parsedPages = pgStore.parsedPages
                /\ pgStore'.parseError = pgStore.parseError
             \/ /\ SameOutsideRotations(pgStore', pgStore)
                /\ \E p \in StorePages :
                      \A q \in StorePages : q # p => SameEntry(pgStore', pgStore, q)]_vars

\* Page 1 is at 180 while page 2 is at 90 and the store holds a parse
\* result, edit mode and a zoom other than the default.
C28_Witness ==
    /\ RotationOf(pgStore, 1) = 180 /\ RotationOf(pgStore, 2) = 90
    /\ pgStore.editMode /\ pgStore.parsedPages = 1 /\ pgStore.zoom = 130

\* C29. The zoom stays between ZOOM_MIN and ZOOM_MAX and is a multiple of
\* ZOOM_STEP after any zoom-in, zoom-out, reset, fit-to-width and upload;
\* zoom-in and zoom-out change it by one step, or leave it alone at the
\* bound; reset and upload set it to ZOOM_DEFAULT.
C29_ZoomInRange ==
    /\ [](/\ pgStore.zoom \in ZOOM_MIN..ZOOM_MAX
          /\ pgStore.zoom % ZOOM_STEP = 0
          /\ ZOOM_MIN = 50 /\ ZOOM_MAX = 300 /\ ZOOM_STEP = 10 /\ ZOOM_DEFAULT = 100)
    /\ [][/\ zoomIn => pgStore'.zoom = IF pgStore.zoom = ZOOM_MAX THEN ZOOM_MAX
                                       ELSE pgStore.zoom + ZOOM_STEP
          /\ zoomOut => pgStore'.zoom = IF pgStore.zoom = ZOOM_MIN THEN ZOOM_MIN
                                        ELSE pgStore.zoom - ZOOM_STEP
          /\ resetZoom => pgStore'.zoom = ZOOM_DEFAULT
          /\ handleUpload => pgStore'.zoom = ZOOM_DEFAULT]_vars

\* The fit has set the zoom of an uploaded file to the upper bound.
C29_Witness ==
    /\ pgFileUrl # 0 /\ ~pgPendingFit /\ pgStore.zoom = ZOOM_MAX

RendersSettled == \A r \in RenderIds : renders[r].pc \in {"none", "done"}

\* C31: user overlays are never lost by re-rendering.  The model has no
\* action that deletes a textbox, so the textboxes on the canvas before a
\* run of zoom and rotation changes are the textboxes made so far: once the
\* last render has returned, every textbox ever made is on the canvas again.
C31_OverlaysSurviveRerender ==
    RendersSettled => \A i \in BoxIds : boxes[i].made => boxes[i].onCanvas

\* ------------------------------------------------------------------------
\* C32: the anchor of an overlay across the replay of a re-render
\* ------------------------------------------------------------------------

\* The viewport-relative anchor (left / viewportWidth, top / viewportHeight)
\* of textbox b as two exact fractions.
AnchorIn(b, vp) == [xn |-> b.left, xd |-> vp.width, yn |-> b.top, yd |-> vp.height]

\* rotate(anchor, delta) on fractions: a quarter turn is (x, y) -> (1 - y, x).
TurnedAnchor(a, delta) ==
    CASE delta = 1 -> [xn |-> a.yd - a.yn, xd |-> a.yd, yn |-> a.xn, yd |-> a.xd]
      [] delta = 2 -> [xn |-> a.xd - a.xn, xd |-> a.xd, yn |-> a.yd - a.yn, yd |-> a.yd]
      [] delta = 3 -> [xn |-> a.yn, xd |-> a.yd, yn |-> a.xd - a.xn, yd |-> a.xd]
      [] OTHER -> a

SameAnchor(a, b) == a.xn * b.xd = b.xn * a.xd /\ a.yn * b.yd = b.yn * a.yd

\* The bounding rect of textbox b lies inside viewport vp.
InsideViewport(b, vp) ==
    LET rect == BoundingRect(b)
    IN  /\ rect.left >= 0 /\ rect.top >= 0
        /\ rect.left + rect.width <= vp.width /\ rect.top + rect.height <= vp.height

\* Render r completes and replays the transforms onto the user objects it
\* restores ("if (!isNewCanvas && prevViewport)").
ReplayStep(r) ==
    /\ RenderImageDone(r)
    /\ ~renders[r].cancelled /\ ~renders[r].isNew /\ prevViewport.has

\* The rotation steps between the last completed render and render r.
StepDelta(r) ==
    (normalizeRotationSteps(Num(renders[r].rot)) - normalizeRotationSteps(Num(prevRotation)) + 4) % 4

\* The anchor of every restored textbox that lay inside the previous
\* viewport is the previous anchor turned by the rotation-step delta.
AnchorsFollow(r) ==
    \A i \in userObjects :
        InsideViewport(boxes[i], prevViewport) =>
            SameAnchor(AnchorIn(boxes'[i], prevViewport'),
                       TurnedAnchor(AnchorIn(boxes[i], prevViewport), StepDelta(r)))

\* C32: after every completed re-render each overlay's viewport-relative
\* anchor equals rotate(previous relative anchor, rotation-step delta since
\* the last completed render), whatever the zoom did in between; with no
\* rotation change the anchor is unchanged.
C32_AnchorFollowsRotation ==
    [][\A r \in RenderIds : ReplayStep(r) => AnchorsFollow(r)]_vars

\* ------------------------------------------------------------------------
\* C33: the isRendering flag
\* ------------------------------------------------------------------------

\* Render r is blocked on one of its awaits.
InFlight(r) == renders[r].pc \in {"getPage", "renderTask", "import", "image"}

\* Render r returns in this step.
Returns(r) == InFlight(r) /\ renders'[r].pc \in {"done", "failed"}

\* C33: the rendering flag settles.  isRendering is true while a render that
\* was not cancelled is in flight; the flag drops to false only in a step in
\* which a render that was not cancelled returns, so a cancelled render never
\* sets it to false; and, the zoom and rotation changes having come to an
\* end, the last render started has returned (by completing, by an early
\* return or by an error) and isRendering is false from then on.
C33_RenderingFlagSettles ==
    /\ [](\A r \in RenderIds : InFlight(r) /\ ~renders[r].cancelled => isRendering)
    /\ [][(isRendering /\ ~isRendering') =>
              \E r \in RenderIds : ~renders[r].cancelled /\ Returns(r)]_vars
    /\ [][\A r \in RenderIds : renders[r].cancelled /\ Returns(r) =>
              isRendering' = isRendering]_vars
    /\ <>[](renders[rendersStarted].pc \in {"done", "failed"} /\ ~isRendering)

\* A cancelled render returned after the import or the image, the last
\* render failed, and the flag is down.
C33_Witness ==
    /\ rendersStarted = MaxRenders /\ ~saved.has
    /\ \E r \in RenderIds : r < rendersStarted /\ renders[r].cancelled /\ renders[r].isNew
                            /\ renders[r].pc = "done"
    /\ renders[rendersStarted].pc = "done" /\ ~renders[rendersStarted].cancelled
    /\ ~isRendering

\* ------------------------------------------------------------------------
\* C34: the page loop of the save route
\* ------------------------------------------------------------------------

\* The page payloads handled so far, the one in hand included, with the
\* number of drawing operations made for each.
PagesHandled ==
    IF svPc = "overlays" \/ (svPc = "done" /\ svResponse.stage = "overlay")
    THEN Append(svLog, [pageNumber |-> svPage.pageNumber, found |-> TRUE,
                        index |-> PageIndex(svPage.pageNumber) + 1,
                        overlays |-> svCount, draws |-> Len(svDraws)])
    ELSE svLog

\* C34: page payloads are applied in ascending pageNumber order, each to the
\* document page whose 1-based index equals its pageNumber; a payload whose
\* pageNumber is smaller than 1 or larger than the page count is skipped,
\* nothing being drawn for it on any page, and the remaining payloads are
\* still processed.
C34_PagesAscendingOrSkipped ==
    LET handled == PagesHandled IN
    /\ \A k \in 1..(Len(handled) - 1) : handled[k].pageNumber <= handled[k + 1].pageNumber
    /\ \A k \in 1..Len(handled) :
          IF handled[k].pageNumber < 1 \/ handled[k].pageNumber > DocPages
          THEN handled[k].draws = 0
          ELSE handled[k].found /\ handled[k].index = handled[k].pageNumber
    /\ (svPc = "done" /\ svResult = "ok") => Len(svLog) = Len(svPages)

\* ------------------------------------------------------------------------
\* computeMaskBoundsFromOriginal on arbitrary snapshots
\* ------------------------------------------------------------------------

\* Ratios, in 1/Unit, a snapshot can carry: inside and outside [0, 1], and
\* not finite.
MaskEdges == {Num(-5), Num(0), Num(2), Num(16), Num(Unit), Num(25), NaN, PosInf}
MaskSides == {Num(-3), Num(0), Num(4), Num(30), NaN, NegInf}

\* pagePayload.rotation: the quarter turns, an angle in between, and NaN.
MaskRotations == {Num(0), Num(90), Num(180), Num(270), Num(100), NaN}

InitMask ==
    /\ SaveIdle /\ HookIdle /\ ParseIdle /\ LateIdle
    /\ gRect \in [l : MaskEdges, t : MaskEdges, w : MaskSides, h : MaskSides]
    /\ gA \in 0..3 /\ gB \in MaskRotations
    /\ gPc = "in" /\ gOut = NoGeom

\* computeMaskBoundsFromOriginal for the snapshot gRect captured at rotation
\* 90 * gA and a page payload of rotation gB.
MaskCompute ==
    /\ gPc = "in"
    /\ LET overlay == [originalBounds |-> Bounds(gRect.l, gRect.t, gRect.w, gRect.h, 90 * gA)]
           pagePayload == [rotation |-> gB]
           mask == computeMaskBoundsFromOriginal(overlay, pagePayload, PageWidth, PageHeight)
       IN  gOut' = [ok |-> mask.ok, x |-> mask.rectX, y |-> mask.rectY,
                    w |-> mask.width, h |-> mask.height]
    /\ gPc' = "mask"
    /\ UNCHANGED << gRect, gA, gB, saveVars, hookVars, parseVars, lateVars >>

NextMask == MaskCompute

SpecMask == InitMask /\ [][NextMask]_vars

\* C35: every mask rectangle computed from a snapshot lies inside the page.
\* Whenever computeMaskBoundsFromOriginal returns a rectangle its width and
\* height are positive and 0 <= rectX, rectX + width <= pageWidth,
\* 0 <= rectY, rectY + height <= pageHeight, for every snapshot with finite
\* ratios, inside [0, 1] or not, and every pair of capture and page
\* rotation; for a snapshot with a ratio that is not finite it returns no
\* rectangle.
C35_MaskInsidePage ==
    gPc = "mask" =>
        IF \A value \in {gRect.l, gRect.t, gRect.w, gRect.h} : IsFinite(value)
        THEN gOut.ok =>
                /\ gOut.w > 0 /\ gOut.h > 0
                /\ 0 <= gOut.x /\ gOut.x + gOut.w <= PageWidth
                /\ 0 <= gOut.y /\ gOut.y + gOut.h <= PageHeight
        ELSE ~gOut.ok

\* A snapshot that starts left of the page and ends right of it, captured
\* at 0 and replayed on the page turned by 90 degrees: the mask is cut to
\* the page.
C35_Witness ==
    /\ gPc = "mask" /\ gA = 0 /\ gB = Num(90)
    /\ gRect = [l |-> Num(-5), t |-> Num(16), w |-> Num(30), h |-> Num(30)]
    /\ gOut.ok /\ gOut.x = 0 /\ gOut.w = (4 * PageWidth) \div Unit /\ gOut.h = PageHeight

\* ------------------------------------------------------------------------
\* C36: the lines of a page after clustering
\* ------------------------------------------------------------------------

\* How often item it occurs in the sequence items.
Occurrences(items, it) == Cardinality({ i \in 1..Len(items) : items[i] = it })

\* How often item it occurs in the first k lines.
RECURSIVE OccurrencesInLines(_, _)
OccurrencesInLines(k, it) ==
    IF k = 0 THEN 0
    ELSE OccurrencesInLines(k - 1, it) + Occurrences(psLines[k].items, it)

\* C36: after the line clustering of a page every retained character is in
\* exactly one line, every character's y is within 3 of the representative y
\* of its line, the representative y values of any two lines differ by more
\* than 3, the lines are in ascending representative y and the characters of
\* each line in ascending x.
C36_LinesAfterClustering ==
    psPc = "done" =>
        /\ \A i \in 1..Len(psItems) :
              OccurrencesInLines(Len(psLines), psItems[i]) = Occurrences(psItems, psItems[i])
        /\ \A k \in 1..Len(psLines) :
              /\ psLines[k].items # << >>
              /\ \A i \in 1..Len(psLines[k].items) :
                    /\ Occurrences(psItems, psLines[k].items[i]) > 0
                    /\ Abs(psLines[k].items[i].y - psLines[k].y) <= 3 * PxUnit
              /\ \A i \in 1..(Len(psLines[k].items) - 1) :
                    psLines[k].items[i].x <= psLines[k].items[i + 1].x
        /\ \A k, m \in 1..Len(psLines) :
              k # m => Abs(psLines[k].y - psLines[m].y) > 3 * PxUnit
        /\ \A k \in 1..(Len(psLines) - 1) : psLines[k].y <= psLines[k + 1].y

\* Characters reported at y = 200, 104, 100 and 102: three lines, at 100,
\* at 104 (the character at 102 joins it, the first line within 3 of its y,
\* and comes before the one at 104 in x order) and at 200.
C36_Witness ==
    /\ psPc = "done"
    /\ [i \in 1..Len(psItems) |-> psItems[i].y] =
           << 200 * PxUnit, 104 * PxUnit, 100 * PxUnit, 102 * PxUnit >>
    /\ [k \in 1..Len(psLines) |-> psLines[k].y] = << 100 * PxUnit, 104 * PxUnit, 200 * PxUnit >>
    /\ [i \in 1..Len(psLines[2].items) |-> psLines[2].items[i].y] = << 102 * PxUnit, 104 * PxUnit >>

\* ------------------------------------------------------------------------
\* C37: textboxes are kept on the canvas
\* ------------------------------------------------------------------------

\* The bounding rect of the textbox is no wider and no taller than the canvas.
FitsCanvas(b, size) ==
    LET rect == BoundingRect(b)
    IN  rect.width <= size.width /\ rect.height <= size.height

\* The textbox as the drag or the resize left it, before 'moving' /
\* 'modified' is handled.
DraggedTo(i, target) ==
    [boxes[i] EXCEPT !.left = (target.x * canvasSize.width) \div Unit,
                     !.top = (target.y * canvasSize.height) \div Unit]

ResizedBox(i) == [boxes[i] EXCEPT !.w = (ResizeWidth * canvasSize.width) \div Unit]

\* What enforceTextboxBounds has to leave behind for a textbox it was given
\* as `given`.
KeptOnCanvas(given, i) ==
    /\ FitsCanvas(given, canvasSize) => InsideViewport(boxes'[i], canvasSize')
    /\ InsideViewport(given, canvasSize) =>
           boxes'[i].left = given.left /\ boxes'[i].top = given.top

\* A step that registers textbox i on the canvas: the end of a render that
\* was not cancelled, or the edit-mode effect adding the parsed blocks.
RegistersTextbox(i) ==
    \/ \E r \in RenderIds :
          RenderImageDone(r) /\ ~renders[r].cancelled /\ i \in userObjects'
    \/ ToggleEditMode /\ ~boxes[i].made /\ boxes'[i].made

ExportWidths == {600, 800}

\* What a registered exporter does when captureAllPages calls it: it returns
\* a snapshot (without a page number), returns null, or throws.
Exporters ==
    { [has |-> TRUE, kind |-> "snapshot", width |-> w] : w \in ExportWidths }
        \cup { [has |-> TRUE, kind |-> k, width |-> 0] : k \in {"null", "throws"} }

\* Object.entries(exporters) from key p on: the integer keys of an object
\* are listed in ascending order, as strings.
RECURSIVE ObjectEntriesFrom(_, _)
ObjectEntriesFrom(obj, p) ==
    IF p \notin DOMAIN obj THEN << >>
    ELSE (IF obj[p].has THEN << [key |-> p, exporter |-> obj[p]] >> ELSE << >>)
             \o ObjectEntriesFrom(obj, p + 1)

ObjectEntries(obj) == ObjectEntriesFrom(obj, 1)

\* entries.sort((a, b) => a.pageNumber - b.pageNumber), a stable sort.
RECURSIVE InsertEntry(_, _)
InsertEntry(sorted, entry) ==
    IF sorted = << >> THEN << entry >>
    ELSE IF entry.pageNumber - Head(sorted).pageNumber < 0
         THEN << entry >> \o sorted
         ELSE << Head(sorted) >> \o InsertEntry(Tail(sorted), entry)

RECURSIVE SortEntries(_)
SortEntries(entries) ==
    IF entries = << >> THEN << >>
    ELSE InsertEntry(SortEntries(SubSeq(entries, 1, Len(entries) - 1)), entries[Len(entries)])

\* The loop of captureAllPages with the try around the whole loop: the first
\* exporter that throws ends the capture.
RECURSIVE captureLoopAborting(_, _)
captureLoopAborting(entries, snapshots) ==
    IF entries = << >> THEN snapshots
    ELSE LET entry == Head(entries) IN
         IF entry.exporter.kind = "throws" THEN snapshots
         ELSE IF entry.exporter.kind = "null"
         THEN captureLoopAborting(Tail(entries), snapshots)
         ELSE captureLoopAborting(Tail(entries),
                  Append(snapshots, [pageNumber |-> entry.pageNumber,
                                     width |-> entry.exporter.width]))

\* The loop of captureAllPages: each exporter is called inside its own try;
\* a null snapshot is skipped, a throw is logged.
RECURSIVE captureLoop(_, _)
captureLoop(entries, snapshots) ==
    IF entries = << >> THEN snapshots
    ELSE LET entry == Head(entries) IN
         IF entry.exporter.kind = "throws" THEN captureLoop(Tail(entries), snapshots)
         ELSE IF entry.exporter.kind = "null" THEN captureLoop(Tail(entries), snapshots)
         ELSE captureLoop(Tail(entries),
                  Append(snapshots, [pageNumber |-> entry.pageNumber,
                                     width |-> entry.exporter.width]))

\* captureAllPages on the registry obj.
captureAllPages(obj) ==
    LET listed == ObjectEntries(obj)
        mapped == [k \in 1..Len(listed) |->
                      [pageNumber |-> listed[k].key, exporter |-> listed[k].exporter]]
    IN  captureLoop(SortEntries(mapped), << >>)

InitExport ==
    /\ EarlyIdle /\ ColorIdle /\ PagesIdle /\ DocIdle /\ PageIdle
    /\ ExportIdle

\* The effect of PdfPageCanvas for page p runs: registerPageExporter(p,
\* exportPageData).  A change of exportPageData runs the cleanup first,
\* which leaves the same registry once the new exporter is registered.
RegisterPageExporter(p, exporter) ==
    /\ exporters[p] # exporter
    /\ exporters' = [exporters EXCEPT ![p] = exporter]
    /\ UNCHANGED << exSnapshots, exCaptured, notExport >>

\* The page canvas of page p unmounts: unregisterPageExporter(p).
UnregisterPageExporter(p) ==
    /\ exporters[p].has
    /\ exporters' = [exporters EXCEPT ![p] = NoExporter]
    /\ UNCHANGED << exSnapshots, exCaptured, notExport >>

\* The save button calls captureAllPages.
CaptureAllPages ==
    /\ exSnapshots' = captureAllPages(exporters)
    /\ exCaptured' = TRUE
    /\ UNCHANGED << exporters, notExport >>

NextExport ==
    \/ \E p \in ExportPages, exporter \in Exporters : RegisterPageExporter(p, exporter)
    \/ \E p \in ExportPages : UnregisterPageExporter(p)
    \/ CaptureAllPages

SpecExport == InitExport /\ [][NextExport]_vars

\* C38: captureAllPages returns exactly one snapshot for each registered
\* exporter that returns a value, tagged with the page number of its key and
\* carrying what that exporter returned, in strictly ascending page order;
\* exporters that throw or return null leave no snapshot and stop nothing;
\* and the registry is the same after the call.
C38_CaptureAllPages ==
    [][CaptureAllPages =>
          /\ \A k \in 1..Len(exSnapshots') :
                LET snapshot == exSnapshots'[k] IN
                /\ snapshot.pageNumber \in ExportPages
                /\ exporters[snapshot.pageNumber].has
                /\ exporters[snapshot.pageNumber].kind = "snapshot"
                /\ snapshot.width = exporters[snapshot.pageNumber].width
          /\ \A p \in ExportPages :
                exporters[p].has /\ exporters[p].kind = "snapshot" =>
                    \E k \in 1..Len(exSnapshots') : exSnapshots'[k].pageNumber = p
          /\ \A k \in 1..(Len(exSnapshots') - 1) :
                exSnapshots'[k].pageNumber < exSnapshots'[k + 1].pageNumber
          /\ exporters' = exporters
      ]_vars

\* Pages 1 and 3 were captured although the exporter of page 2, registered
\* between them, throws.
C38_Witness ==
    /\ exCaptured
    /\ exporters[1].kind = "snapshot" /\ exporters[3].kind = "snapshot"
    /\ exporters[2].has /\ exporters[2].kind = "throws"
    /\ [k \in 1..Len(exSnapshots) |-> exSnapshots[k].pageNumber] = << 1, 3 >>

\* ------------------------------------------------------------------------
\* C39: the flags of usePdfDocument
\* ------------------------------------------------------------------------

\* The three implications between the flags of the state the hook returns.
C39_FlagsAgree ==
    dcPc = "mounted" =>
        /\ dcState.loading => dcState.doc = 0 /\ ~dcState.error
        /\ dcState.error => dcState.doc = 0 /\ dcState.pageCount = 0 /\ ~dcState.loading
        /\ dcState.doc # 0 =>
               dcState.pageCount = dcState.doc /\ ~dcState.loading /\ ~dcState.error

C39_EmptyUrlSettled ==
    dcPc = "mounted" /\ dcUrl = 0 /\ dcPending = << >> => dcState = NoDocState

====
